---- MODULE Spec2Model ----
(***************************************************************************)
(* Model of the extraction-reconciliation pipeline of Literate:            *)
(*   - the entity model (models.py): Relationship, NarrativeObject,        *)
(*     ObjectCollection and its merge;                                     *)
(*   - the object manager (object_manager.py): process_text_update and     *)
(*     replace_object;                                                     *)
(*   - the update orchestrator (tui_app.py): debounce task, extraction in  *)
(*     a worker thread, per-entity correction tasks;                       *)
(*   - the validator and the parser (schema_validator.py,                  *)
(*     narrative_parser.py) and the prompt of an extraction                *)
(*     (llm_client.py).                                                    *)
(*                                                                         *)
(* Four specifications share the state:                                    *)
(*   ModelSpec   the ObjectManager driven directly, one call per step      *)
(*   ParserSpec  responses and texts given to the parser and the prompt    *)
(*   Spec        the LiterateApp event loop with its tasks and threads     *)
(*   FairSpec    the event loop with weak fairness of its own steps        *)
(***************************************************************************)
EXTENDS Integers, Sequences, FiniteSets, TLC

VARIABLES
    collection,          \* ObjectManager.collection.objects : name -> NarrativeObject
    clock,               \* the wall clock read by datetime.now()
    last,                \* the call or event of the last step and its result
    last_text,           \* LiterateApp.last_text
    current_input_text,  \* LiterateApp.current_input_text
    is_processing,       \* LiterateApp.is_processing
    debounce_task,       \* LiterateApp.debounce_task
    cancelled_tasks,     \* debounce tasks replaced after cancel(), CancelledError not yet delivered
    retry_tasks          \* tasks running _retry_narrative_object

vars == <<collection, clock, last, last_text, current_input_text,
          is_processing, debounce_task, cancelled_tasks, retry_tasks>>

appVars == <<last_text, current_input_text, is_processing, debounce_task,
             cancelled_tasks, retry_tasks>>

----------------------------------------------------------------------------
(* Bounds *)

MaxClock == 2
MaxListLen == 2

(* Input domains *)

Names == {"Alice", "Bob", "Carol"}
Descriptions == {"d1", "d2"}

Relationship(target, description) ==
    [target |-> target, description |-> description]

RelAlice == Relationship("Alice", "knows")
RelBob == Relationship("Bob", "knows")
RelGhost == Relationship("Zed", "knows")

\* Relationship lists an extracted object can carry: empty, two orders of
\* the same set, and a list with a target that names no extracted object.
RelationshipLists ==
    {<<>>, <<RelAlice, RelBob>>, <<RelBob, RelAlice>>, <<RelGhost>>}

----------------------------------------------------------------------------
(* models.py *)

ToSet(s) == {s[i] : i \in 1..Len(s)}

\* NarrativeObject(name, description, relationships): both timestamps
\* default to datetime.now() at construction.
NarrativeObject(name, description, relationships, now) ==
    [name |-> name, description |-> description,
     relationships |-> relationships,
     first_seen |-> now, last_updated |-> now]

\* Fault: relationship lists are compared as lists, not as sets.
update_from_OrderSensitive(self, other, now) ==
    LET descDiff == self.description # other.description
        relDiff == self.relationships # other.relationships
        changed == descDiff \/ relDiff
    IN [obj |-> [self EXCEPT
                   !.description = IF descDiff THEN other.description ELSE @,
                   !.relationships = IF relDiff THEN other.relationships ELSE @,
                   !.last_updated = IF changed THEN now ELSE @],
        changed |-> changed]

\* Fault: last_updated is set by every update_from, changed or not.
update_from_AlwaysTouches(self, other, now) ==
    LET descDiff == self.description # other.description
        relDiff == ToSet(self.relationships) # ToSet(other.relationships)
    IN [obj |-> [self EXCEPT
                   !.description = IF descDiff THEN other.description ELSE @,
                   !.relationships = IF relDiff THEN other.relationships ELSE @,
                   !.last_updated = now],
        changed |-> descDiff \/ relDiff]

\* NarrativeObject.update_from: returns the updated object and `changed`.
update_from(self, other, now) ==
    LET descDiff == self.description # other.description
        relDiff == ToSet(self.relationships) # ToSet(other.relationships)
        changed == descDiff \/ relDiff
    IN [obj |-> [self EXCEPT
                   !.description = IF descDiff THEN other.description ELSE @,
                   !.relationships = IF relDiff THEN other.relationships ELSE @,
                   !.last_updated = IF changed THEN now ELSE @],
        changed |-> changed]

Put(objs, name, obj) ==
    [n \in DOMAIN objs \cup {name} |-> IF n = name THEN obj ELSE objs[n]]

Del(objs, name) ==
    [n \in DOMAIN objs \ {name} |-> objs[n]]

\* ObjectCollection.add_or_update
add_or_update(objs, obj, now) ==
    IF obj.name \in DOMAIN objs
    THEN LET u == update_from(objs[obj.name], obj, now)
         IN [objects |-> [objs EXCEPT ![obj.name] = u.obj], ret |-> u.changed]
    ELSE [objects |-> Put(objs, obj.name, obj), ret |-> TRUE]

\* ObjectCollection.remove
remove(objs, name) ==
    IF name \in DOMAIN objs
    THEN [objects |-> Del(objs, name), ret |-> TRUE]
    ELSE [objects |-> objs, ret |-> FALSE]

NoStats == [added |-> 0, updated |-> 0, unchanged |-> 0, removed |-> 0]

\* One iteration of the loop of merge_from_list over new_objects.
MergeOne(st, obj, current_names, now) ==
    LET r == add_or_update(st.objects, obj, now)
    IN [objects |-> r.objects,
        stats |->
          IF r.ret
          THEN IF obj.name \in current_names
               THEN [st.stats EXCEPT !.updated = @ + 1]
               ELSE [st.stats EXCEPT !.added = @ + 1]
          ELSE [st.stats EXCEPT !.unchanged = @ + 1]]

\* The loop of merge_from_list: the state after one iteration (the only
\* element of the inner set) is the state the rest of the loop starts from.
RECURSIVE MergeLoop(_, _, _, _)
MergeLoop(st, new_objects, current_names, now) ==
    IF new_objects = <<>> THEN st
    ELSE CHOOSE result \in
            {MergeLoop(next, Tail(new_objects), current_names, now) :
                next \in {MergeOne(st, Head(new_objects), current_names, now)}} :
            TRUE

\* Fault: the removal pass drops every previously stored name, also those
\* that occur in new_objects.
MergeRemove_AllPrevious(st, new_objects, current_names) ==
    [objects |-> [n \in DOMAIN st.objects \ current_names |-> st.objects[n]],
     stats |-> [st.stats EXCEPT !.removed = Cardinality(current_names)]]

\* The removal pass of merge_from_list (taken only if remove_missing).
MergeRemove(st, new_objects, current_names) ==
    LET new_names == {new_objects[i].name : i \in 1..Len(new_objects)}
        removed_names == current_names \ new_names
        gone == {n \in removed_names : remove(st.objects, n).ret}
    IN [objects |-> [n \in DOMAIN st.objects \ removed_names |-> st.objects[n]],
        stats |-> [st.stats EXCEPT !.removed = Cardinality(gone)]]

\* Fault: the removal pass runs whatever remove_missing says.
merge_from_list_AlwaysRemove(objs, new_objects, remove_missing, now) ==
    MergeRemove(MergeLoop([objects |-> objs, stats |-> NoStats],
                          new_objects, DOMAIN objs, now),
                new_objects, DOMAIN objs)

\* ObjectCollection.merge_from_list
merge_from_list(objs, new_objects, remove_missing, now) ==
    LET current_names == DOMAIN objs
        looped == MergeLoop([objects |-> objs, stats |-> NoStats],
                            new_objects, current_names, now)
    IN IF remove_missing
       THEN MergeRemove(looped, new_objects, current_names)
       ELSE looped

\* datetime.isoformat() and datetime.fromisoformat(): a time is written as
\* its decimal digits and read back from them.
Digits == <<"0", "1", "2", "3", "4", "5", "6", "7", "8", "9">>

RECURSIVE isoformat(_)
isoformat(t) ==
    IF t < 10 THEN <<Digits[t + 1]>>
    ELSE isoformat(t \div 10) \o <<Digits[(t % 10) + 1]>>

DigitValue(c) == CHOOSE d \in 0..9 : Digits[d + 1] = c

RECURSIVE fromisoformat(_)
fromisoformat(s) ==
    IF Len(s) = 1 THEN DigitValue(s[1])
    ELSE fromisoformat(SubSeq(s, 1, Len(s) - 1)) * 10 + DigitValue(s[Len(s)])

\* NarrativeObject.to_dict
NarrativeObject_to_dict(self) ==
    [name |-> self.name,
     description |-> self.description,
     relationships |->
        [i \in 1..Len(self.relationships) |->
           [target |-> self.relationships[i].target,
            description |-> self.relationships[i].description]],
     first_seen |-> isoformat(self.first_seen),
     last_updated |-> isoformat(self.last_updated)]

\* Fault: the stored timestamps are not read back.
NarrativeObject_from_dict_NoTimestamps(data, now) ==
    NarrativeObject(data["name"], data["description"],
                    [i \in 1..Len(data["relationships"]) |->
                       Relationship(data["relationships"][i].target,
                                    data["relationships"][i].description)],
                    now)

\* NarrativeObject.from_dict: the object is constructed at `now`, then the
\* timestamps that the data has replace the defaults.
NarrativeObject_from_dict(data, now) ==
    LET relationships ==
            IF "relationships" \in DOMAIN data
            THEN [i \in 1..Len(data["relationships"]) |->
                    Relationship(data["relationships"][i].target,
                                 data["relationships"][i].description)]
            ELSE <<>>
        obj == NarrativeObject(data["name"], data["description"],
                               relationships, now)
    IN [obj EXCEPT
          !.first_seen = IF "first_seen" \in DOMAIN data
                         THEN fromisoformat(data["first_seen"]) ELSE @,
          !.last_updated = IF "last_updated" \in DOMAIN data
                           THEN fromisoformat(data["last_updated"]) ELSE @]

\* ObjectCollection.to_dict
to_dict(objs) ==
    [objects |-> [name \in DOMAIN objs |-> NarrativeObject_to_dict(objs[name])],
     count |-> Cardinality(DOMAIN objs)]

\* ObjectCollection.from_dict
from_dict(data, now) ==
    IF "objects" \in DOMAIN data
    THEN [name \in DOMAIN data["objects"] |->
            NarrativeObject_from_dict(data["objects"][name], now)]
    ELSE <<>>

----------------------------------------------------------------------------
(* Text and JSON values *)

\* A Python str is a sequence of one-character strings.
Whitespace == {" ", "\n", "\t"}

\* str.lstrip() and str.rstrip(): the text from its first, and up to its
\* last, character that is not whitespace.
lstrip(s) ==
    IF \A i \in 1..Len(s) : s[i] \in Whitespace THEN <<>>
    ELSE SubSeq(s, CHOOSE i \in 1..Len(s) :
                      /\ s[i] \notin Whitespace
                      /\ \A j \in 1..(i - 1) : s[j] \in Whitespace,
                Len(s))

rstrip(s) ==
    IF \A i \in 1..Len(s) : s[i] \in Whitespace THEN <<>>
    ELSE SubSeq(s, 1, CHOOSE i \in 1..Len(s) :
                         /\ s[i] \notin Whitespace
                         /\ \A j \in (i + 1)..Len(s) : s[j] \in Whitespace)

\* str.strip()
str_strip(s) == rstrip(lstrip(s))

UpperToLower ==
    [A |-> "a", B |-> "b", C |-> "c", D |-> "d", E |-> "e", F |-> "f",
     G |-> "g", H |-> "h", I |-> "i", J |-> "j", K |-> "k", L |-> "l",
     M |-> "m", N |-> "n", O |-> "o", P |-> "p", Q |-> "q", R |-> "r",
     S |-> "s", T |-> "t", U |-> "u", V |-> "v", W |-> "w", X |-> "x",
     Y |-> "y", Z |-> "z"]

isupper(c) == c \in DOMAIN UpperToLower

\* str.lower()
lower(s) ==
    [i \in 1..Len(s) |-> IF isupper(s[i]) THEN UpperToLower[s[i]] ELSE s[i]]

startswith(s, prefix) ==
    Len(s) >= Len(prefix) /\ SubSeq(s, 1, Len(prefix)) = prefix

endswith(s, suffix) ==
    Len(s) >= Len(suffix)
    /\ SubSeq(s, Len(s) - Len(suffix) + 1, Len(s)) = suffix

\* `sub in s`
contains(s, sub) ==
    \E i \in 1..(Len(s) - Len(sub) + 1) : SubSeq(s, i, i + Len(sub) - 1) = sub

\* c * n
Repeat(c, n) == [i \in 1..n |-> c]

\* What json.loads returns: None, a number (int, float or bool), a str, a
\* list, or a dict with str keys.
JNull == [t |-> "null"]
JNumber(n) == [t |-> "number", v |-> n]
JString(s) == [t |-> "string", v |-> s]
JArray(items) == [t |-> "array", v |-> items]
JObject(fields) == [t |-> "object", v |-> fields]

\* isinstance(x, dict), isinstance(x, list), isinstance(x, str)
is_dict(x) == x.t = "object"
is_list(x) == x.t = "array"
is_str(x) == x.t = "string"

\* `key in d`, d[key] and d.get(key, default) on a dict
has(d, key) == key \in DOMAIN d.v
get(d, key, default) == IF has(d, key) THEN d.v[key] ELSE default

----------------------------------------------------------------------------
(* schema_validator.py *)

NameMaxLength == 100
DescriptionMaxLength == 500
RelDescriptionMaxLength == 200

Ellipsis == <<".", ".", ".">>

\* The check of one required string field in _validate_object and
\* _validate_relationship: missing, not a non-empty string, too long.
FieldErrors(d, key, max) ==
    IF ~has(d, key) THEN <<"missing required field">>
    ELSE IF ~is_str(d.v[key]) \/ Len(str_strip(d.v[key].v)) = 0
    THEN <<"must be a non-empty string">>
    ELSE IF Len(d.v[key].v) > max THEN <<"too long">>
    ELSE <<>>

\* SchemaValidator._validate_relationship
_validate_relationship(rel) ==
    IF ~is_dict(rel) THEN <<"must be a JSON object">>
    ELSE FieldErrors(rel, "target", NameMaxLength)
         \o FieldErrors(rel, "description", RelDescriptionMaxLength)

RECURSIVE ValidateRelationships(_)
ValidateRelationships(rels) ==
    IF rels = <<>> THEN <<>>
    ELSE _validate_relationship(Head(rels)) \o ValidateRelationships(Tail(rels))

\* SchemaValidator._validate_object
_validate_object(obj) ==
    IF ~is_dict(obj) THEN <<"must be a JSON object">>
    ELSE FieldErrors(obj, "name", NameMaxLength)
         \o FieldErrors(obj, "description", DescriptionMaxLength)
         \o (IF has(obj, "relationships")
             THEN IF ~is_list(obj.v["relationships"])
                  THEN <<"'relationships' must be an array">>
                  ELSE ValidateRelationships(obj.v["relationships"].v)
             ELSE <<>>)

RECURSIVE ValidateObjects(_)
ValidateObjects(objects) ==
    IF objects = <<>> THEN <<>>
    ELSE _validate_object(Head(objects)) \o ValidateObjects(Tail(objects))

\* SchemaValidator.validate_response: (is_valid, errors)
validate_response(response_data) ==
    LET errors ==
          IF ~is_dict(response_data)
          THEN <<"Response must be a JSON object">>
          ELSE IF ~has(response_data, "objects")
          THEN <<"Response missing required 'objects' field">>
          ELSE IF ~is_list(response_data.v["objects"])
          THEN <<"'objects' field must be an array">>
          ELSE ValidateObjects(response_data.v["objects"].v)
    IN [is_valid |-> errors = <<>>, errors |-> errors]

\* Outcomes of a call: a value, None, or an exception that leaves it.
Returns(value) == [kind |-> "value", value |-> value]
ReturnsNone == [kind |-> "none"]
Raises(exception) == [kind |-> "raise", exception |-> exception]

truncate(s, max) ==
    IF Len(s) > max THEN SubSeq(s, 1, max - 3) \o Ellipsis ELSE s

\* SchemaValidator._sanitize_relationship; rel.get(key, "").strip() raises
\* AttributeError when the value is not a str.
_sanitize_relationship(rel) ==
    IF ~is_dict(rel) THEN ReturnsNone
    ELSE IF ~is_str(get(rel, "target", JString(<<>>)))
    THEN Raises("AttributeError")
    ELSE LET target == str_strip(get(rel, "target", JString(<<>>)).v)
         IN IF target = <<>> \/ Len(target) > NameMaxLength THEN ReturnsNone
            ELSE IF ~is_str(get(rel, "description", JString(<<>>)))
            THEN Raises("AttributeError")
            ELSE LET description ==
                         str_strip(get(rel, "description", JString(<<>>)).v)
                 IN IF description = <<>> THEN ReturnsNone
                    ELSE Returns(JObject(
                           [target |-> JString(target),
                            description |->
                               JString(truncate(description,
                                                RelDescriptionMaxLength))]))

\* The loop of _sanitize_object over obj["relationships"]: the sanitized
\* relationships, or the exception of the first item that raises.
RECURSIVE SanitizeRelationships(_, _)
SanitizeRelationships(rels, relationships) ==
    IF rels = <<>> THEN Returns(relationships)
    ELSE LET sanitized_rel == _sanitize_relationship(Head(rels))
         IN IF sanitized_rel.kind = "raise" THEN sanitized_rel
            ELSE SanitizeRelationships(
                    Tail(rels),
                    IF sanitized_rel.kind = "value"
                    THEN Append(relationships, sanitized_rel.value)
                    ELSE relationships)

\* f"A {name.lower()} mentioned in the text."
DefaultDescription(name) ==
    <<"A", " ">> \o lower(name)
    \o <<" ", "m", "e", "n", "t", "i", "o", "n", "e", "d", " ", "i", "n", " ",
         "t", "h", "e", " ", "t", "e", "x", "t", ".">>

\* SchemaValidator._sanitize_object
_sanitize_object(obj) ==
    IF ~is_dict(obj) THEN ReturnsNone
    ELSE IF ~is_str(get(obj, "name", JNull)) THEN ReturnsNone
    ELSE LET name == str_strip(obj.v["name"].v)
             given == get(obj, "description", JNull)
             description ==
                 truncate(IF is_str(given) /\ str_strip(given.v) # <<>>
                          THEN str_strip(given.v)
                          ELSE DefaultDescription(name),
                          DescriptionMaxLength)
             relationships ==
                 IF has(obj, "relationships") /\ is_list(obj.v["relationships"])
                 THEN SanitizeRelationships(obj.v["relationships"].v, <<>>)
                 ELSE Returns(<<>>)
         IN IF name = <<>> \/ Len(name) > NameMaxLength THEN ReturnsNone
            ELSE IF relationships.kind = "raise" THEN relationships
            ELSE Returns(JObject(
                   [name |-> JString(name),
                    description |-> JString(description),
                    relationships |-> JArray(relationships.value)]))

\* The loop of sanitize_response over response_data["objects"].
RECURSIVE SanitizeObjects(_, _)
SanitizeObjects(objects, sanitized_objects) ==
    IF objects = <<>> THEN Returns(sanitized_objects)
    ELSE LET sanitized_obj == _sanitize_object(Head(objects))
         IN IF sanitized_obj.kind = "raise" THEN sanitized_obj
            ELSE SanitizeObjects(
                    Tail(objects),
                    IF sanitized_obj.kind = "value"
                    THEN Append(sanitized_objects, sanitized_obj.value)
                    ELSE sanitized_objects)

NoObjects == JObject([objects |-> JArray(<<>>)])

\* SchemaValidator.sanitize_response
sanitize_response(response_data) ==
    IF ~is_dict(response_data) THEN Returns(NoObjects)
    ELSE IF ~has(response_data, "objects") THEN Returns(NoObjects)
    ELSE IF ~is_list(response_data.v["objects"]) THEN Returns(NoObjects)
    ELSE LET sanitized_objects ==
                 SanitizeObjects(response_data.v["objects"].v, <<>>)
         IN IF sanitized_objects.kind = "raise" THEN sanitized_objects
            ELSE Returns(JObject([objects |-> JArray(sanitized_objects.value)]))

----------------------------------------------------------------------------
(* narrative_parser.py *)

RECURSIVE SelectSeq2(_, _)
\* The sub-sequence of the relationships whose target is in object_names.
SelectSeq2(rels, object_names) ==
    IF rels = <<>> THEN <<>>
    ELSE IF Head(rels).target \in object_names
         THEN <<Head(rels)>> \o SelectSeq2(Tail(rels), object_names)
         ELSE SelectSeq2(Tail(rels), object_names)

\* Fault: a relationship is kept only if its target is another object of
\* the list.
validate_relationships_NoSelf(objects) ==
    [i \in 1..Len(objects) |->
       [objects[i] EXCEPT
          !.relationships =
             SelectSeq2(@, {objects[j].name : j \in 1..Len(objects)}
                           \ {objects[i].name})]]

\* NarrativeParser.validate_relationships
validate_relationships(objects) ==
    LET object_names == {objects[i].name : i \in 1..Len(objects)}
    IN [i \in 1..Len(objects) |->
          [objects[i] EXCEPT
             !.relationships = SelectSeq2(@, object_names)]]

\* NarrativeParser._convert_to_objects: one NarrativeObject per item of the
\* payload's "objects" array, constructed while the response is parsed.
_convert_to_objects(payload, now) ==
    [i \in 1..Len(payload) |->
       NarrativeObject(payload[i].name, payload[i].description,
                       payload[i].relationships, now)]

\* A collaborator response is represented by what parsing makes of it:
\* either the conversion raises (raises = TRUE), or it yields the objects
\* of the payload.
Response(raises, payload) == [raises |-> raises, payload |-> payload]

\* The quality filter's word lists.
T_string == <<"s", "t", "r", "i", "n", "g">>
T_name == <<"n", "a", "m", "e">>
T_object == <<"o", "b", "j", "e", "c", "t">>
T_description == <<"d", "e", "s", "c", "r", "i", "p", "t", "i", "o", "n">>
T_the == <<"t", "h", "e", " ">>
T_person == <<"p", "e", "r", "s", "o", "n">>
T_character == <<"c", "h", "a", "r", "a", "c", "t", "e", "r">>

SpecificWords ==
    {<<"l", "i", "b", "r", "a", "r", "y">>, <<"c", "a", "s", "t", "l", "e">>,
     <<"p", "a", "r", "k">>, <<"s", "c", "h", "o", "o", "l">>,
     <<"b", "o", "o", "k">>, <<"s", "w", "o", "r", "d">>, <<"m", "a", "p">>}

Quote == "\""

\* The four markers of _is_placeholder_response.
T_objects == <<"o", "b", "j", "e", "c", "t", "s">>
T_relationships ==
    <<"r", "e", "l", "a", "t", "i", "o", "n", "s", "h", "i", "p", "s">>
T_target == <<"t", "a", "r", "g", "e", "t">>
T_wrong == <<"w", "r", "o", "n", "g">>

Quoted(s) == <<Quote>> \o s \o <<Quote>>

T_ExactNameFromText ==
    <<"E", "x", "a", "c", "t", "N", "a", "m", "e", "F", "r", "o", "m",
      "T", "e", "x", "t">>
T_BriefDescription ==
    <<"B", "r", "i", "e", "f", " ", "d", "e", "s", "c", "r", "i", "p", "t",
      "i", "o", "n", " ", "b", "a", "s", "e", "d", " ", "o", "n", "l", "y",
      " ", "o", "n", " ", "w", "h", "a", "t", " ", "t", "h", "e", " ",
      "t", "e", "x", "t", " ", "s", "a", "y", "s">>

PlaceholderIndicators ==
    {Quoted(T_name) \o <<":", " ">> \o Quoted(T_string),
     Quoted(T_description) \o <<":", " ">> \o Quoted(T_string),
     T_ExactNameFromText,
     T_BriefDescription}

\* Fault: no response is taken for an echo of the format.
_is_placeholder_response_Never(response_text) == FALSE

\* NarrativeParser._is_placeholder_response
_is_placeholder_response(response_text) ==
    \E indicator \in PlaceholderIndicators : contains(response_text, indicator)

\* The backquote character (the lexer accepts none inside a string).
Backquote == "backquote"

Fence == <<Backquote, Backquote, Backquote>>
FenceJson == Fence \o <<"j", "s", "o", "n">>

\* NarrativeParser._clean_response_text
_clean_response_text(response_text) ==
    LET text == str_strip(response_text)
        opened == IF startswith(text, FenceJson)
                  THEN SubSeq(text, 8, Len(text))
                  ELSE IF startswith(text, Fence)
                  THEN SubSeq(text, 4, Len(text))
                  ELSE text
        closed == IF endswith(opened, Fence)
                  THEN SubSeq(opened, 1, Len(opened) - 3)
                  ELSE opened
    IN str_strip(closed)

\* text.split('\n'): the pieces between the line breaks.
split_lines(text) ==
    LET breaks == {i \in 1..Len(text) : text[i] = "\n"}
        n == Cardinality(breaks)
        Pos(k) == IF k = 0 THEN 0
                  ELSE IF k = n + 1 THEN Len(text) + 1
                  ELSE CHOOSE i \in breaks :
                          Cardinality({b \in breaks : b <= i}) = k
    IN [k \in 1..(n + 1) |-> SubSeq(text, Pos(k - 1) + 1, Pos(k) - 1)]

\* line.split(':', 1)[1] of a line that contains ':'
after_colon(line) ==
    LET first == CHOOSE i \in 1..Len(line) :
                    line[i] = ":" /\ \A j \in 1..(i - 1) : line[j] # ":"
    IN SubSeq(line, first + 1, Len(line))

\* s.rstrip('",')
rstrip_quote_comma(s) ==
    IF \A i \in 1..Len(s) : s[i] \in {Quote, ","} THEN <<>>
    ELSE SubSeq(s, 1, CHOOSE i \in 1..Len(s) :
                         /\ s[i] \notin {Quote, ","}
                         /\ \A j \in (i + 1)..Len(s) : s[j] \in {Quote, ","})

\* Fault: a description is taken from a line whose value is not closed.
SalvageLine_AcceptsOpen(st, raw_line) ==
    LET line == str_strip(raw_line)
        has_colon == contains(line, <<":">>)
        value_part == str_strip(after_colon(line))
    IN IF contains(line, Quoted(T_name)) /\ has_colon
       THEN IF startswith(value_part, <<Quote>>)
               /\ endswith(value_part, <<Quote, ",">>)
            THEN [st EXCEPT !.current_name =
                     SubSeq(value_part, 2, Len(value_part) - 2)]
            ELSE IF startswith(value_part, <<Quote>>)
                    /\ endswith(value_part, <<Quote>>)
            THEN [st EXCEPT !.current_name =
                     SubSeq(value_part, 2, Len(value_part) - 1)]
            ELSE st
       ELSE IF contains(line, Quoted(T_description)) /\ has_colon
               /\ st.current_name # <<>>
       THEN IF startswith(value_part, <<Quote>>)
            THEN LET current_description ==
                         rstrip_quote_comma(Tail(value_part))
                 IN IF current_description # <<>>
                    THEN [objects |->
                             Append(st.objects,
                                    [name |-> st.current_name,
                                     description |-> current_description,
                                     relationships |-> <<>>]),
                          current_name |-> <<>>,
                          current_description |-> <<>>]
                    ELSE [st EXCEPT !.current_description = current_description]
            ELSE st
       ELSE st

\* One iteration of the loop of _attempt_salvage_parse over the lines;
\* st holds objects, current_name and current_description (<<>> for None).
SalvageLine(st, raw_line) ==
    LET line == str_strip(raw_line)
        has_colon == contains(line, <<":">>)
        value_part == str_strip(after_colon(line))
    IN IF contains(line, Quoted(T_name)) /\ has_colon
       THEN IF startswith(value_part, <<Quote>>)
               /\ endswith(value_part, <<Quote, ",">>)
            THEN [st EXCEPT !.current_name =
                     SubSeq(value_part, 2, Len(value_part) - 2)]
            ELSE IF startswith(value_part, <<Quote>>)
                    /\ endswith(value_part, <<Quote>>)
            THEN [st EXCEPT !.current_name =
                     SubSeq(value_part, 2, Len(value_part) - 1)]
            ELSE st
       ELSE IF contains(line, Quoted(T_description)) /\ has_colon
               /\ st.current_name # <<>>
       THEN IF startswith(value_part, <<Quote>>)
               /\ (endswith(value_part, <<Quote, ",">>)
                   \/ endswith(value_part, <<Quote>>))
            THEN LET current_description ==
                         rstrip_quote_comma(Tail(value_part))
                 IN IF current_description # <<>>
                    THEN [objects |->
                             Append(st.objects,
                                    [name |-> st.current_name,
                                     description |-> current_description,
                                     relationships |-> <<>>]),
                          current_name |-> <<>>,
                          current_description |-> <<>>]
                    ELSE [st EXCEPT !.current_description = current_description]
            ELSE st
       ELSE st

RECURSIVE SalvageLoop(_, _)
SalvageLoop(st, lines) ==
    IF lines = <<>> THEN st
    ELSE SalvageLoop(SalvageLine(st, Head(lines)), Tail(lines))

\* NarrativeParser._attempt_salvage_parse
_attempt_salvage_parse(text) ==
    SalvageLoop([objects |-> <<>>, current_name |-> <<>>,
                 current_description |-> <<>>],
                split_lines(text)).objects

\* Fault: the relationships of the items are not converted.
ObjectData_NoRelationships(response_data) ==
    LET objects == get(response_data, "objects", JArray(<<>>)).v
    IN [i \in 1..Len(objects) |->
          [name |-> objects[i].v["name"].v,
           description |-> objects[i].v["description"].v,
           relationships |-> <<>>]]

\* The items of response_data["objects"] as _convert_to_objects reads them:
\* obj_data["name"], obj_data["description"] and, for each item of
\* obj_data.get("relationships", []), rel_data["target"] and
\* rel_data["description"].
ObjectData(response_data) ==
    LET objects == get(response_data, "objects", JArray(<<>>)).v
    IN [i \in 1..Len(objects) |->
          LET rels == get(objects[i], "relationships", JArray(<<>>)).v
          IN [name |-> objects[i].v["name"].v,
              description |-> objects[i].v["description"].v,
              relationships |->
                 [j \in 1..Len(rels) |->
                    Relationship(rels[j].v["target"].v,
                                 rels[j].v["description"].v)]]]

\* The test of _filter_quality_objects on one object.
IsQualityObject(obj) ==
    /\ ~ \/ lower(obj.name) \in {T_string, T_name, T_object}
         \/ lower(obj.description) \in {T_string, T_description}
         \/ Len(str_strip(obj.name)) < 2
         \/ Len(str_strip(obj.description)) < 5
    /\ LET is_proper_name ==
               /\ isupper(obj.name[1])
               /\ ~startswith(lower(obj.name), T_the)
               /\ lower(obj.name) \notin {T_person, T_character, T_object}
       IN \/ is_proper_name
          \/ \E word \in SpecificWords : contains(lower(obj.name), word)

\* NarrativeParser._filter_quality_objects
RECURSIVE _filter_quality_objects(_)
_filter_quality_objects(objects) ==
    IF objects = <<>> THEN <<>>
    ELSE (IF IsQualityObject(Head(objects)) THEN <<Head(objects)>> ELSE <<>>)
         \o _filter_quality_objects(Tail(objects))

\* A response of the collaborator: its text, and what json.loads makes of
\* the cleaned text (a value, or JSONDecodeError).
LlmResponse(text, decoded) == [text |-> text, decoded |-> decoded]

\* NarrativeParser.parse_llm_response: the objects it returns, or that an
\* exception leaves it.
parse_llm_response(llm_response) ==
    LET cleaned_text == _clean_response_text(llm_response.text)
        response_data == llm_response.decoded.value
        sanitized ==
            IF validate_response(response_data).is_valid
            THEN Returns(response_data)
            ELSE sanitize_response(response_data)
    IN IF str_strip(llm_response.text) = <<>> THEN Response(FALSE, <<>>)
       ELSE IF _is_placeholder_response(cleaned_text) THEN Response(FALSE, <<>>)
       ELSE IF llm_response.decoded.kind = "raise"
       THEN Response(FALSE, _attempt_salvage_parse(cleaned_text))
       ELSE IF sanitized.kind = "raise" THEN Response(TRUE, <<>>)
       ELSE Response(FALSE, _filter_quality_objects(ObjectData(sanitized.value)))

----------------------------------------------------------------------------
(* object_manager.py *)

Result(success, stats, objs, error) ==
    [success |-> success, stats |-> stats,
     total_count |-> Cardinality(DOMAIN objs), error |-> error]

\* ObjectManager.process_text_update: parse, validate relationships, merge
\* with the default remove_missing; any exception becomes a failure result.
\* new_objects and m are the values of the two steps, each the only element
\* of its set.
process_text_update(objs, response, now) ==
    IF response.raises
    THEN [objects |-> objs, result |-> Result(FALSE, NoStats, objs, "exception")]
    ELSE CHOOSE out \in
            {[objects |-> m.objects,
              result |-> Result(TRUE, m.stats, m.objects, "none")] :
                m \in {merge_from_list(objs, new_objects, FALSE, now) :
                         new_objects \in
                            {validate_relationships(
                                _convert_to_objects(response.payload, now))}}} :
            TRUE

ReplaceStats == [added |-> 0, updated |-> 1, unchanged |-> 0, removed |-> 0]

\* Fault: the existence check is missing, the new object is inserted anyway.
replace_object_NoCheck(objs, old_name, new_object, now) ==
    LET removed == remove(objs, old_name).objects
        added == add_or_update(removed, new_object, now).objects
    IN [objects |-> added,
        result |-> Result(TRUE, ReplaceStats, added, "none")]

\* ObjectManager.replace_object
replace_object(objs, old_name, new_object, now) ==
    IF old_name \notin DOMAIN objs
    THEN [objects |-> objs, result |-> Result(FALSE, NoStats, objs, "not found")]
    ELSE LET removed == remove(objs, old_name).objects
             added == add_or_update(removed, new_object, now).objects
         IN [objects |-> added,
             result |-> Result(TRUE, ReplaceStats, added, "none")]

----------------------------------------------------------------------------
(* Inputs *)

RECURSIVE SeqsUpTo(_, _)
SeqsUpTo(S, n) ==
    IF n = 0 THEN {<<>>}
    ELSE LET shorter == SeqsUpTo(S, n - 1)
         IN shorter \cup {Append(s, x) : s \in {t \in shorter : Len(t) = n - 1}, x \in S}

\* The items a payload can hold.
PayloadItems ==
    {[name |-> n, description |-> d, relationships |-> <<>>] :
        n \in Names, d \in Descriptions}
    \cup {[name |-> "Alice", description |-> "d1", relationships |-> rl] :
            rl \in RelationshipLists}

Payloads == SeqsUpTo(PayloadItems, MaxListLen)

Responses == {Response(FALSE, p) : p \in Payloads} \cup {Response(TRUE, <<>>)}

\* Collections a snapshot file can hold when the manager is constructed
\* (ObjectManager.__init__ loads save_file): any subset of the names, each
\* entity with any of the stored shapes, stamped before the session.
StoredShapes(n) ==
    {NarrativeObject(n, d, <<>>, 0) : d \in Descriptions}
    \cup (IF n = "Alice"
          THEN {NarrativeObject(n, "d1", rl, 0) : rl \in RelationshipLists}
          ELSE {})

Snapshots ==
    UNION {[S -> UNION {StoredShapes(n) : n \in S}] : S \in SUBSET Names}

ValidSnapshot(c) == \A n \in DOMAIN c : c[n].name = n

\* datetime.now(): the clock has advanced or not since the last reading.
Nows == {clock, IF clock < MaxClock THEN clock + 1 ELSE clock}

----------------------------------------------------------------------------
(* tui_app.py: tasks of the event loop and their worker threads *)

DEBOUNCE_SECONDS == 3

\* The worker thread of a debounce task while it runs process_text_update:
\*   phase "idle"   no process_text_update submitted
\*         "parse"  submitted, response not yet parsed
\*         "merge"  inside the loop of merge_from_list, `pending` left to do
\*         "done"   process_text_update has returned `result`
NoResult == Result(FALSE, NoStats, <<>>, "no result")

IdleThread ==
    [phase |-> "idle", response |-> Response(FALSE, <<>>), pending |-> <<>>,
     current_names |-> {}, stats |-> NoStats, result |-> NoResult]

\* A task running _debounced_process_text(text):
\*   pc "none"    no task was ever created (debounce_task is None)
\*      "new"     created by create_task, first step not yet run
\*      "wait"    in the countdown, i sleeps of one second left
\*      "llm"     awaiting _get_llm_response in the executor
\*      "update"  awaiting process_text_update in the executor
\*      "done"    finished
\*   cancel       cancel() was called and CancelledError is not yet delivered
Task(pc, text) ==
    [pc |-> pc, text |-> text, i |-> 0, cancel |-> FALSE, thread |-> IdleThread]

NoTask == Task("none", "")

----------------------------------------------------------------------------
(* ModelSpec: the ObjectManager called directly, as the tests do *)

AppInit ==
    /\ last_text = ""
    /\ current_input_text = ""
    /\ is_processing = FALSE
    /\ debounce_task = NoTask
    /\ cancelled_tasks = <<>>
    /\ retry_tasks = <<>>

ModelInit ==
    /\ collection \in {c \in Snapshots : ValidSnapshot(c)}
    /\ clock = 0
    /\ last = [op |-> "init"]
    /\ AppInit

\* collection.merge_from_list(new_objects, remove_missing) on a freshly
\* constructed list of objects.
DoMergeFromList(payload, remove_missing, now, repeat) ==
    LET new_objects == _convert_to_objects(payload, now)
        m == merge_from_list(collection, new_objects, remove_missing, now)
    IN /\ collection' = m.objects
       /\ clock' = now
       /\ last' = [op |-> "merge_from_list", payload |-> payload,
                   remove_missing |-> remove_missing, stats |-> m.stats,
                   repeat |-> repeat]
       /\ UNCHANGED appVars

\* manager.process_text_update(text, llm_response)
DoProcessTextUpdate(response, now, repeat) ==
    LET r == process_text_update(collection, response, now)
    IN /\ collection' = r.objects
       /\ clock' = now
       /\ last' = [op |-> "process_text_update", response |-> response,
                   result |-> r.result, repeat |-> repeat]
       /\ UNCHANGED appVars

\* A first call on the loaded collection.
MMergeFromList ==
    /\ last.op = "init"
    /\ \E payload \in Payloads, remove_missing \in BOOLEAN, now \in Nows :
          DoMergeFromList(payload, remove_missing, now, FALSE)

MProcessTextUpdate ==
    /\ last.op = "init"
    /\ \E response \in Responses, now \in Nows :
          DoProcessTextUpdate(response, now, FALSE)

\* manager.replace_object(old_name, new_object)
MReplaceObject ==
    /\ last.op = "init"
    /\ \E old_name \in Names, item \in PayloadItems, now \in Nows :
        LET new_object == NarrativeObject(item.name, item.description,
                                          item.relationships, now)
            r == replace_object(collection, old_name, new_object, now)
        IN /\ collection' = r.objects
           /\ clock' = now
           /\ last' = [op |-> "replace_object", old_name |-> old_name,
                       new_object |-> new_object, result |-> r.result]
           /\ UNCHANGED appVars

\* The same merge made a second time, on a list constructed again from the
\* same data (test_models.py merges equal lists in a row).
MMergeAgain ==
    /\ last.op = "merge_from_list"
    /\ ~last.repeat
    /\ \E now \in Nows :
          DoMergeFromList(last.payload, last.remove_missing, now, TRUE)

\* The same response processed a second time.
MProcessAgain ==
    /\ last.op = "process_text_update"
    /\ ~last.repeat
    /\ \E now \in Nows : DoProcessTextUpdate(last.response, now, TRUE)

\* Entries of a snapshot file written before the session: with both
\* timestamps, with one of them, with none.
FileEntries(name) ==
    LET fields == [name |-> name, description |-> "d1",
                   relationships |-> <<>>, first_seen |-> isoformat(0),
                   last_updated |-> isoformat(0)]
    IN {[k \in {"name", "description", "relationships"} \cup stamps |-> fields[k]] :
          stamps \in SUBSET {"first_seen", "last_updated"}}

\* Files with entries for some of the names, each under its own name.
SnapshotFiles ==
    LET files == UNION {[S -> UNION {FileEntries(n) : n \in S}] :
                          S \in SUBSET {"Alice", "Bob"}}
    IN {[objects |-> objects, count |-> Cardinality(DOMAIN objects)] :
          objects \in {f \in files : \A n \in DOMAIN f : f[n]["name"] = n}}

\* manager.load_from_file(file_path): the collection is replaced by the one
\* read from the file.
MLoadFromFile ==
    /\ last.op = "init"
    /\ \E data \in SnapshotFiles, now \in Nows :
          /\ collection' = from_dict(data, now)
          /\ clock' = now
          /\ last' = [op |-> "load_from_file", data |-> data]
          /\ UNCHANGED appVars

\* ObjectCollection.from_dict(collection.to_dict()), as save_to_file and a
\* later load_from_file do.
MRoundTrip ==
    /\ last.op # "round_trip"
    /\ \E now \in Nows :
          LET data == to_dict(collection)
          IN /\ collection' = from_dict(data, now)
             /\ clock' = now
             /\ last' = [op |-> "round_trip", data |-> data]
             /\ UNCHANGED appVars

\* parser.validate_relationships(objects) on a list of parsed objects
MValidateRelationships ==
    /\ last.op = "init"
    /\ \E payload \in Payloads :
          LET objects == _convert_to_objects(payload, clock)
          IN last' = [op |-> "validate_relationships", objects |-> objects,
                      out |-> validate_relationships(objects)]
    /\ UNCHANGED <<collection, clock, appVars>>

ModelNext ==
    \/ MValidateRelationships
    \/ MMergeFromList
    \/ MProcessTextUpdate
    \/ MReplaceObject
    \/ MMergeAgain
    \/ MProcessAgain
    \/ MLoadFromFile
    \/ MRoundTrip

ModelSpec == ModelInit /\ [][ModelNext]_vars

----------------------------------------------------------------------------
(* llm_client.py and tui_app.py: the prompt of an extraction *)

MaxTextLength == 2000

\* LLMClient._create_extraction_prompt(text): the fixed instructions with
\* the text embedded verbatim between the quotes of its `Text: "..."` line.
_create_extraction_prompt(text) == [template |-> "extraction", text |-> text]

\* What a path hands to the collaborator: a prompt, or nothing.
NoCall == [called |-> FALSE]
Call(prompt) == [called |-> TRUE, prompt |-> prompt]

\* LLMClient.extract_narrative_objects up to the call of the collaborator:
\* nothing is called for a blank text, a text above the limit is cut to
\* its first MaxTextLength characters followed by "...".
extract_narrative_objects(text) ==
    IF str_strip(text) = <<>> THEN NoCall
    ELSE Call(_create_extraction_prompt(
                 IF Len(text) > MaxTextLength
                 THEN SubSeq(text, 1, MaxTextLength) \o Ellipsis
                 ELSE text))

\* LiterateApp._get_llm_response up to the call of the collaborator, the
\* path of the debounce task: the prompt is built from the text as given.
_get_llm_response(text) == Call(_create_extraction_prompt(text))

\* Texts of the user: blank, short, of exactly the limit, and above it.
InputTexts ==
    {<<" ">>, <<"a">>, Repeat("a", MaxTextLength),
     Repeat("a", MaxTextLength) \o <<"b">>}

----------------------------------------------------------------------------
(* ParserSpec: responses of the collaborator given to the validator and *)
(* to process_text_update on a manager, as test_error_handling.py does, *)
(* and texts of the user given to the two paths that build a prompt     *)

MaxObjects == 2

T_Alice == <<"A", "l", "i", "c", "e">>
T_Bob == <<"B", "o", "b">>
T_PaddedAlice == <<" ">> \o T_Alice \o <<" ">>
T_Scientist == <<"A", " ", "s", "c", "i", "e", "n", "t", "i", "s", "t">>
T_Teacher == <<"A", " ", "t", "e", "a", "c", "h", "e", "r">>
T_Knows == <<"k", "n", "o", "w", "s">>

\* Values a field of a response can hold where a string is expected.
NotStrings == {JNull, JNumber(5)}

NameValues ==
    NotStrings
    \cup {JString(s) : s \in {T_Alice, T_PaddedAlice, <<" ">>,
                              Repeat("N", NameMaxLength + 1)}}

DescriptionValues ==
    {JNull, JString(T_Scientist), JString(<<" ">>),
     JString(Repeat("A", DescriptionMaxLength + 1))}

TargetValues ==
    NotStrings
    \cup {JString(T_Alice), JString(Repeat("N", NameMaxLength + 1))}

RelDescriptionValues ==
    {JNull, JString(T_Knows),
     JString(Repeat("k", RelDescriptionMaxLength + 1))}

\* Relationship items: not a dict, a field missing, and a dict with every
\* value of one field beside a well-formed other field.
RelationshipItems ==
    {JNull,
     JObject([target |-> JString(T_Bob)]),
     JObject([description |-> JString(T_Knows)]),
     JObject([target |-> JString(<<>>), description |-> JNull])}
    \cup {JObject([target |-> t, description |-> JString(T_Knows)]) :
             t \in TargetValues}
    \cup {JObject([target |-> JString(T_Alice), description |-> d]) :
             d \in RelDescriptionValues}

RelationshipsValues ==
    {JNull, JArray(<<>>)}
    \cup {JArray(<<r>>) : r \in RelationshipItems}
    \cup {JArray(<<JObject([target |-> JString(T_Bob),
                            description |-> JString(T_Knows)]), r>>) :
             r \in {JNull, JObject([target |-> JNull,
                                    description |-> JString(T_Knows)]),
                    JObject([target |-> JString(T_Alice),
                             description |-> JString(T_Knows)])}}

\* Items of the "objects" array: not a dict, a field missing, and a dict
\* with every value of one field beside well-formed other fields.
ObjectItems ==
    {JNull,
     JObject([name |-> JString(T_Alice)]),
     JObject([description |-> JString(T_Scientist)]),
     JObject([name |-> JString(T_Bob), description |-> JString(T_Teacher)])}
    \cup {JObject([name |-> n, description |-> JString(T_Scientist)]) :
             n \in NameValues}
    \cup {JObject([name |-> JString(T_Alice), description |-> d]) :
             d \in DescriptionValues}
    \cup {JObject([name |-> JString(T_Alice),
                   description |-> JString(T_Scientist),
                   relationships |-> r]) : r \in RelationshipsValues}

\* The items of the longer "objects" arrays: not a dict, a field missing,
\* and two well-formed objects.
CoreItems ==
    {JNull,
     JObject([name |-> JString(T_Alice)]),
     JObject([name |-> JString(T_Bob), description |-> JString(T_Teacher)]),
     JObject([name |-> JString(T_Alice),
              description |-> JString(T_Scientist),
              relationships |-> JArray(<<
                  JObject([target |-> JString(T_Alice),
                           description |-> JString(T_Knows)])>>)])}

\* What json.loads can give for a response: a value that is no dict of
\* objects, an array of at most two items of any kind, or an array of at
\* most MaxObjects of the items above.
ResponseData ==
    {JNull, JNumber(5), JString(T_Alice), JArray(<<JNumber(5)>>),
     JObject([wrong |-> JString(T_Alice)]),
     JObject([objects |-> JObject([name |-> JString(T_Alice)])])}
    \cup {JObject([objects |-> JArray(items)]) :
             items \in SeqsUpTo(ObjectItems, 2) \cup SeqsUpTo(CoreItems, MaxObjects)}

\* json.dumps: the text of a value, keys in the order of the schema.
KeyOrder ==
    <<"objects", "wrong", "name", "target", "description", "relationships">>

KeyText ==
    [objects |-> T_objects, wrong |-> T_wrong, name |-> T_name,
     target |-> T_target, description |-> T_description,
     relationships |-> T_relationships]

RECURSIVE dumps(_)
RECURSIVE DumpItems(_)
RECURSIVE DumpMembers(_, _, _)

DumpItems(items) ==
    IF items = <<>> THEN <<>>
    ELSE dumps(Head(items))
         \o (IF Tail(items) = <<>> THEN <<>> ELSE <<",", " ">>)
         \o DumpItems(Tail(items))

DumpMembers(fields, keys, first) ==
    IF keys = <<>> THEN <<>>
    ELSE IF Head(keys) \in DOMAIN fields
    THEN (IF first THEN <<>> ELSE <<",", " ">>)
         \o Quoted(KeyText[Head(keys)]) \o <<":", " ">>
         \o dumps(fields[Head(keys)])
         \o DumpMembers(fields, Tail(keys), FALSE)
    ELSE DumpMembers(fields, Tail(keys), first)

dumps(x) ==
    CASE x.t = "null" -> <<"n", "u", "l", "l">>
      [] x.t = "number" -> <<"5">>
      [] x.t = "string" -> Quoted(x.v)
      [] x.t = "array" -> <<"[">> \o DumpItems(x.v) \o <<"]">>
      [] x.t = "object" ->
            <<"{">>
            \o DumpMembers(x.v, SelectSeq(KeyOrder, LAMBDA k : k \in DOMAIN x.v),
                           TRUE)
            \o <<"}">>

T_InvalidJson ==
    <<"i", "n", "v", "a", "l", "i", "d", " ", "j", "s", "o", "n">>

\* A response cut off after the fields of its first object, one field per
\* line.
TruncatedResponse(name, description) ==
    <<"{">> \o Quoted(T_objects) \o <<":", " ", "[", "\n", " ", "{", "\n">>
    \o <<" ", " ">> \o Quoted(T_name) \o <<":", " ">> \o Quoted(name)
    \o <<",", "\n", " ", " ">> \o Quoted(T_description) \o <<":", " ">>
    \o Quoted(description) \o <<",", "\n", " ", " ">>
    \o Quoted(T_relationships) \o <<":", " ", "[">>

\* A response cut off inside the description of its first object: on one
\* line, and one field per line.
T_CutOnOneLine ==
    <<"{">> \o Quoted(T_objects) \o <<":", "[", "{">> \o Quoted(T_name)
    \o <<":">> \o Quoted(T_Alice) \o <<",">> \o Quoted(T_description)
    \o <<":", Quote, "A", " ", "s", "c">>

T_CutInDescription ==
    <<"{">> \o Quoted(T_objects) \o <<":", " ", "[", "\n", " ", "{", "\n">>
    \o <<" ", " ">> \o Quoted(T_name) \o <<":", " ">> \o Quoted(T_Alice)
    \o <<",", "\n", " ", " ">> \o Quoted(T_description)
    \o <<":", " ", Quote, "A", " ", "s", "c">>

\* A response cut off inside the description of its second object.
T_CutInSecondObject ==
    <<"{">> \o Quoted(T_objects) \o <<":", " ", "[", "\n", " ", "{", "\n">>
    \o <<" ", " ">> \o Quoted(T_name) \o <<":", " ">> \o Quoted(T_Alice)
    \o <<",", "\n", " ", " ">> \o Quoted(T_description) \o <<":", " ">>
    \o Quoted(T_Scientist) \o <<"\n", " ", "}", ",", "\n", " ", "{", "\n">>
    \o <<" ", " ">> \o Quoted(T_name) \o <<":", " ">> \o Quoted(T_Bob)
    \o <<",", "\n", " ", " ">> \o Quoted(T_description)
    \o <<":", " ", Quote, "A", " ", "t", "e", "a">>

\* A description line that no name line precedes.
T_DescriptionOnly ==
    <<"{", "\n", " ", " ">> \o Quoted(T_description) \o <<":", " ">>
    \o Quoted(T_Scientist)

\* Texts that json.loads rejects.
MalformedTexts ==
    {<<>>, <<" ", "\n">>, T_InvalidJson, T_CutOnOneLine, T_CutInDescription,
     T_InvalidJson \o <<" ">> \o T_ExactNameFromText,
     T_CutInSecondObject, T_DescriptionOnly,
     TruncatedResponse(Repeat("N", NameMaxLength + 1), T_Scientist)}
    \cup {TruncatedResponse(name, description) :
             name \in {T_Alice, <<"A">>, T_object},
             description \in {T_Scientist, <<"x">>}}

WellFormed ==
    JObject([objects |-> JArray(<<
        JObject([name |-> JString(T_Alice),
                 description |-> JString(T_Scientist),
                 relationships |-> JArray(<<
                     JObject([target |-> JString(T_Bob),
                              description |-> JString(T_Knows)])>>)]),
        JObject([name |-> JString(T_Bob),
                 description |-> JString(T_Teacher)])>>)])

\* Echoes of the prompt's example format: one object with a marker as its
\* name or as its description.
PlaceholderEcho ==
    {JObject([objects |-> JArray(<<
         JObject([name |-> JString(e[1]), description |-> JString(e[2])])>>)]) :
       e \in {<<T_string, T_string>>, <<T_string, T_Scientist>>,
              <<T_Alice, T_string>>, <<T_ExactNameFromText, T_Scientist>>,
              <<T_Alice, T_BriefDescription>>}}

\* Two objects whose names differ by case only.
CaseVariants ==
    JObject([objects |-> JArray(<<
        JObject([name |-> JString(lower(T_Alice)),
                 description |-> JString(T_Scientist)]),
        JObject([name |-> JString(T_Alice),
                 description |-> JString(T_Teacher)])>>)])

\* Responses of the collaborator: the text of every value above, a fenced
\* text, the echo of the prompt's format, empty and blank text, and text
\* that is not JSON.
LlmResponses ==
    {LlmResponse(dumps(x), Returns(x)) :
        x \in ResponseData \cup PlaceholderEcho \cup {WellFormed, CaseVariants}}
    \cup {LlmResponse(FenceJson \o <<"\n">> \o dumps(WellFormed)
                      \o <<"\n">> \o Fence,
                      Returns(WellFormed))}
    \cup {LlmResponse(text, Raises("JSONDecodeError")) :
             text \in MalformedTexts}

\* The manager is new, or holds an entity of an earlier pass.
ParserSnapshots ==
    {<<>>, Put(<<>>, T_Alice, NarrativeObject(T_Alice, T_Teacher, <<>>, 0))}

ParserInit ==
    /\ collection \in ParserSnapshots
    /\ clock = 0
    /\ last = [op |-> "init"]
    /\ AppInit

\* SchemaValidator.sanitize_response(response_data)
PSanitizeResponse ==
    /\ last.op = "init"
    /\ \E response_data \in ResponseData :
          last' = [op |-> "sanitize_response", response_data |-> response_data,
                   out |-> sanitize_response(response_data)]
    /\ UNCHANGED <<collection, clock, appVars>>

\* manager.process_text_update(text, llm_response) on the text of a response
PProcessTextUpdate ==
    /\ last.op = "init"
    /\ \E llm_response \in LlmResponses, now \in Nows :
        \E response \in {parse_llm_response(llm_response)} :
        \E r \in {process_text_update(collection, response, now)} :
           /\ collection' = r.objects
           /\ clock' = now
           /\ last' = [op |-> "process_text_update",
                       llm_response |-> llm_response, response |-> response,
                       result |-> r.result, repeat |-> FALSE]
           /\ UNCHANGED appVars

\* llm_client.extract_narrative_objects(text), as the scripts that use the
\* client directly call it
PExtractNarrativeObjects ==
    /\ last.op = "init"
    /\ \E text \in InputTexts :
          last' = [op |-> "extract_narrative_objects", text |-> text,
                   out |-> extract_narrative_objects(text)]
    /\ UNCHANGED <<collection, clock, appVars>>

\* app._get_llm_response(text), as _process_with_llm submits it to the
\* executor with the text of the debounce task
PGetLlmResponse ==
    /\ last.op = "init"
    /\ \E text \in {t \in InputTexts : str_strip(t) # <<>>} :
          last' = [op |-> "_get_llm_response", text |-> text,
                   out |-> _get_llm_response(text)]
    /\ UNCHANGED <<collection, clock, appVars>>

ParserNext ==
    \/ PSanitizeResponse
    \/ PProcessTextUpdate
    \/ PExtractNarrativeObjects
    \/ PGetLlmResponse

ParserSpec == ParserInit /\ [][ParserNext]_vars

----------------------------------------------------------------------------
(* Spec: the LiterateApp event loop *)

MaxCorrections == 2

\* Texts of the input area: empty, whitespace only, and two real texts.
Texts == {"", " ", "a", "b"}

\* str.strip() on the texts above.
strip(text) == IF text = " " THEN "" ELSE text

\* Responses of the extraction collaborator and objects of the correction
\* collaborator used with the event loop.
AppPayloads ==
    {<<>>,
     <<[name |-> "Alice", description |-> "d1",
        relationships |-> <<RelAlice, RelBob>>],
       [name |-> "Bob", description |-> "d1", relationships |-> <<>>]>>}

AppResponses == {Response(FALSE, p) : p \in AppPayloads} \cup {Response(TRUE, <<>>)}

CorrectedItems ==
    {[name |-> "Bob", description |-> "d2", relationships |-> <<>>]}

RetryNames == {"Alice", "Carol"}

Tick(t) == IF t < MaxClock THEN t + 1 ELSE t

RemoveAt(seq, i) == SubSeq(seq, 1, i - 1) \o SubSeq(seq, i + 1, Len(seq))

Running(task) == task.pc \in {"wait", "llm", "update"}

\* Fault: cancel() has no effect.
cancel_NoEffect(task) == task

\* Task.cancel(): a task that has not run yet never runs; a suspended task
\* gets CancelledError at its next step; a finished task is not affected.
cancel(task) ==
    IF task.pc = "new" THEN Task("done", task.text)
    ELSE IF Running(task) THEN [task EXCEPT !.cancel = TRUE]
    ELSE task

\* Fault: a task cancelled during its countdown goes on to extract.
OnCancelled_RunsAnyway(task, objs, now) ==
    [task |-> Task("done", task.text),
     objects |-> process_text_update(
                    objs,
                    Response(FALSE, <<[name |-> "Carol", description |-> "d1",
                                       relationships |-> <<>>]>>),
                    now).objects,
     notified |-> TRUE]

\* Fault: the executor is not joined when CancelledError leaves
\* _process_with_llm, the collaborator call stays in flight.
OnCancelled_NoJoin(task, objs, now) ==
    [task |-> IF task.pc = "llm"
              THEN [task EXCEPT !.cancel = FALSE]
              ELSE Task("done", task.text),
     objects |-> objs,
     notified |-> FALSE]

\* CancelledError delivered to a debounce task.  In the countdown nothing
\* was started.  Inside _process_with_llm the error leaves the
\* `with ThreadPoolExecutor()` block, whose exit joins the worker thread:
\* the thread finishes what it runs (the collaborator call, whose response
\* is dropped, or process_text_update, whose result is dropped) while the
\* event loop is blocked; _update_ui_from_result is not reached.
OnCancelled(task, objs, now) ==
    [task |-> Task("done", task.text),
     objects |->
        IF task.pc = "update" /\ task.thread.phase = "parse"
        THEN process_text_update(objs, task.thread.response, now).objects
        ELSE IF task.pc = "update" /\ task.thread.phase = "merge"
        THEN MergeLoop([objects |-> objs, stats |-> task.thread.stats],
                       task.thread.pending, task.thread.current_names,
                       now).objects
        ELSE objs,
     notified |-> FALSE]

\* The failures of a collaborator call: LLMClient._call_ollama raises
\* ConnectionError for a refused connection, a timeout, and any other
\* request error (an HTTP error status such as a failed authentication).
CollaboratorFailures == {"connection", "timeout", "request"}

\* show_message(<text with the exception>, "error")
ErrorMessage(cause) == [severity |-> "error", cause |-> cause]

\* Fault: the failure of the collaborator is swallowed and the task goes on
\* with an empty response.
OnLlmFailure_Swallowed(task, cause) ==
    [task |-> [task EXCEPT !.pc = "update",
                           !.thread = [IdleThread EXCEPT !.phase = "parse"]],
     message |-> [severity |-> "none", cause |-> "none"]]

\* _get_llm_response raises "LLM call failed: <cause>": the except clause
\* of _process_with_llm shows it as an error and the task ends.
OnLlmFailure(task, cause) ==
    [task |-> Task("done", task.text), message |-> ErrorMessage(cause)]

\* Fault: the task that finds is_processing set returns without a message.
OnRefused_Silent(task) ==
    [task |-> Task("done", task.text),
     message |-> [severity |-> "none", cause |-> "none"]]

\* _debounced_process_text finds is_processing set after its wait:
\* show_message("Already processing previous request ...", "warning") and
\* return; nothing is submitted to the executor.
OnRefused(task) ==
    [task |-> Task("done", task.text),
     message |-> [severity |-> "warning", cause |-> "processing"]]

\* The debounce tasks whose collaborator call or process_text_update is
\* running, and the corrections whose collaborator call is running.
AllDebounceTasks == <<debounce_task>> \o cancelled_tasks

ExtractionsInFlight ==
    Cardinality({k \in 1..Len(AllDebounceTasks) :
                    AllDebounceTasks[k].pc \in {"llm", "update"}})

CorrectionsInFlight == Len(retry_tasks)

\* A step of the current debounce task runs after the wake-ups of the tasks
\* cancelled before it was created (the ready queue is first-in first-out).
MayStep ==
    /\ ~debounce_task.cancel
    /\ \A k \in 1..Len(cancelled_tasks) : ~cancelled_tasks[k].cancel

Init ==
    /\ collection = <<>>
    /\ clock = 0
    /\ last = [op |-> "init"]
    /\ AppInit

\* Fault: the comparison with last_text is missing, every event is handled
\* as a change.
on_text_area_changed_NoSameCheck(text) ==
    /\ last_text' = text
    /\ current_input_text' = text
    /\ IF strip(text) = ""
       THEN /\ debounce_task' = cancel(debounce_task)
            /\ UNCHANGED cancelled_tasks
       ELSE /\ debounce_task' = Task("new", text)
            /\ cancelled_tasks' =
                  IF Running(debounce_task)
                  THEN Append(cancelled_tasks, cancel(debounce_task))
                  ELSE cancelled_tasks
    /\ last' = [op |-> "text_changed", text |-> text,
                changed |-> text # last_text]
    /\ UNCHANGED <<collection, clock, is_processing, retry_tasks>>

\* on_text_area_changed; `text` is current_text after the placeholder
\* handling.
on_text_area_changed(text) ==
    IF text = last_text
    THEN /\ last' = [op |-> "text_changed", text |-> text, changed |-> FALSE]
         /\ UNCHANGED <<collection, clock, appVars>>
    ELSE /\ last_text' = text
         /\ current_input_text' = text
         /\ IF strip(text) = ""
            THEN /\ debounce_task' = cancel(debounce_task)
                 /\ UNCHANGED cancelled_tasks
            ELSE /\ debounce_task' = Task("new", text)
                 /\ cancelled_tasks' =
                       IF Running(debounce_task)
                       THEN Append(cancelled_tasks, cancel(debounce_task))
                       ELSE cancelled_tasks
         /\ last' = [op |-> "text_changed", text |-> text, changed |-> TRUE]
         /\ UNCHANGED <<collection, clock, is_processing, retry_tasks>>

TextChanged == \E text \in Texts : on_text_area_changed(text)

\* CancelledError reaches a cancelled debounce task: the except and finally
\* clauses of _debounced_process_text run.
DeliverCancel ==
    LET queued == cancelled_tasks # <<>> /\ Head(cancelled_tasks).cancel
        task == IF queued THEN Head(cancelled_tasks) ELSE debounce_task
    IN /\ task.cancel
       /\ \E r \in {OnCancelled(task, collection, clock)} :
             /\ collection' = r.objects
             /\ IF queued
                THEN /\ cancelled_tasks' =
                           IF r.task.pc = "done" THEN Tail(cancelled_tasks)
                           ELSE Append(Tail(cancelled_tasks), r.task)
                     /\ UNCHANGED debounce_task
                ELSE /\ debounce_task' = r.task
                     /\ UNCHANGED cancelled_tasks
             /\ last' = [op |-> "cancelled", text |-> task.text,
                         pc |-> task.pc, notified |-> r.notified]
       /\ is_processing' = FALSE
       /\ UNCHANGED <<clock, last_text, current_input_text, retry_tasks>>

\* _debounced_process_text, first step: the countdown begins.
DebounceStart ==
    /\ debounce_task.pc = "new"
    /\ MayStep
    /\ debounce_task' = [debounce_task EXCEPT !.pc = "wait", !.i = DEBOUNCE_SECONDS]
    /\ last' = [op |-> "wait", text |-> debounce_task.text]
    /\ UNCHANGED <<collection, clock, last_text, current_input_text,
                   is_processing, cancelled_tasks, retry_tasks>>

\* One asyncio.sleep(1) of the countdown returns, another follows.
DebounceTick ==
    /\ debounce_task.pc = "wait"
    /\ debounce_task.i > 1
    /\ MayStep
    /\ debounce_task' = [debounce_task EXCEPT !.i = @ - 1]
    /\ clock' = Tick(clock)
    /\ last' = [op |-> "wait", text |-> debounce_task.text]
    /\ UNCHANGED <<collection, last_text, current_input_text,
                   is_processing, cancelled_tasks, retry_tasks>>

\* The last sleep returns: the is_processing check, then either the return
\* through `finally`, or the start of the collaborator call.
DebounceElapsed ==
    /\ debounce_task.pc = "wait"
    /\ debounce_task.i = 1
    /\ MayStep
    /\ clock' = Tick(clock)
    /\ IF is_processing
       THEN LET r == OnRefused(debounce_task)
            IN /\ debounce_task' = r.task
               /\ is_processing' = FALSE
               /\ last' = [op |-> "refused", text |-> debounce_task.text,
                           message |-> r.message]
       ELSE /\ debounce_task' = [debounce_task EXCEPT !.pc = "llm", !.i = 0]
            /\ is_processing' = TRUE
            /\ last' = [op |-> "extraction_started", text |-> debounce_task.text]
    /\ UNCHANGED <<collection, last_text, current_input_text,
                   cancelled_tasks, retry_tasks>>

\* _process_with_llm: _get_llm_response raises (reported, the task ends
\* through `finally`), or returns and process_text_update is submitted.
LlmReturns ==
    /\ debounce_task.pc = "llm"
    /\ MayStep
    /\ \/ \E cause \in CollaboratorFailures :
            LET r == OnLlmFailure(debounce_task, cause)
            IN /\ debounce_task' = r.task
               /\ is_processing' = FALSE
               /\ last' = [op |-> "llm_failed", text |-> debounce_task.text,
                           message |-> r.message]
       \/ \E response \in AppResponses :
            /\ debounce_task' =
                  [debounce_task EXCEPT
                     !.pc = "update",
                     !.thread = [IdleThread EXCEPT !.phase = "parse",
                                                   !.response = response]]
            /\ last' = [op |-> "llm_returned", text |-> debounce_task.text]
            /\ UNCHANGED is_processing
    /\ UNCHANGED <<collection, clock, last_text, current_input_text,
                   cancelled_tasks, retry_tasks>>

ThreadDone(result) == [IdleThread EXCEPT !.phase = "done", !.result = result]

\* Worker thread, process_text_update up to the loop of merge_from_list:
\* parse, validate_relationships, current_names.
ThreadParse ==
    LET thread == debounce_task.thread
        new_objects ==
            validate_relationships(_convert_to_objects(thread.response.payload, clock))
    IN /\ debounce_task.pc = "update"
       /\ thread.phase = "parse"
       /\ MayStep
       /\ debounce_task' =
             [debounce_task EXCEPT !.thread =
                IF thread.response.raises
                THEN ThreadDone(Result(FALSE, NoStats, collection, "exception"))
                ELSE IF new_objects = <<>>
                THEN ThreadDone(Result(TRUE, NoStats, collection, "none"))
                ELSE [thread EXCEPT !.phase = "merge",
                                    !.pending = new_objects,
                                    !.current_names = DOMAIN collection]]
       /\ last' = [op |-> "parsed", text |-> debounce_task.text]
       /\ UNCHANGED <<collection, clock, last_text, current_input_text,
                      is_processing, cancelled_tasks, retry_tasks>>

\* Worker thread, one iteration of the loop of merge_from_list; after the
\* last one process_text_update builds its result.
ThreadMergeOne ==
    LET thread == debounce_task.thread
        st == MergeOne([objects |-> collection, stats |-> thread.stats],
                       Head(thread.pending), thread.current_names, clock)
        rest == Tail(thread.pending)
    IN /\ debounce_task.pc = "update"
       /\ thread.phase = "merge"
       /\ MayStep
       /\ collection' = st.objects
       /\ debounce_task' =
             [debounce_task EXCEPT !.thread =
                IF rest = <<>>
                THEN ThreadDone(Result(TRUE, st.stats, st.objects, "none"))
                ELSE [thread EXCEPT !.pending = rest, !.stats = st.stats]]
       /\ last' = [op |-> "merged_one", text |-> debounce_task.text]
       /\ UNCHANGED <<clock, last_text, current_input_text,
                      is_processing, cancelled_tasks, retry_tasks>>

\* Fault: the `finally` of _debounced_process_text does not clear
\* is_processing.
ExtractionNotify_KeepsFlag ==
    /\ debounce_task.pc = "update"
    /\ debounce_task.thread.phase = "done"
    /\ MayStep
    /\ debounce_task' = Task("done", debounce_task.text)
    /\ last' = [op |-> "notified", text |-> debounce_task.text,
                result |-> debounce_task.thread.result]
    /\ UNCHANGED <<collection, clock, last_text, current_input_text,
                   is_processing, cancelled_tasks, retry_tasks>>

\* _process_with_llm resumes with the result: _update_ui_from_result, then
\* the `finally` of _debounced_process_text.
ExtractionNotify ==
    /\ debounce_task.pc = "update"
    /\ debounce_task.thread.phase = "done"
    /\ MayStep
    /\ debounce_task' = Task("done", debounce_task.text)
    /\ is_processing' = FALSE
    /\ last' = [op |-> "notified", text |-> debounce_task.text,
                result |-> debounce_task.thread.result]
    /\ UNCHANGED <<collection, clock, last_text, current_input_text,
                   cancelled_tasks, retry_tasks>>

\* _retry_narrative_object up to its await: the two guards, then the
\* correction collaborator is called in the executor.
_retry_narrative_object(object_name) ==
    /\ IF strip(current_input_text) = ""
       THEN /\ last' = [op |-> "retry_refused", name |-> object_name,
                        why |-> "no input text"]
            /\ UNCHANGED <<is_processing, retry_tasks>>
       ELSE IF is_processing
       THEN /\ last' = [op |-> "retry_refused", name |-> object_name,
                        why |-> "processing"]
            /\ UNCHANGED <<is_processing, retry_tasks>>
       ELSE /\ Len(retry_tasks) < MaxCorrections
            /\ is_processing' = TRUE
            /\ retry_tasks' = Append(retry_tasks, object_name)
            /\ last' = [op |-> "correction_started", name |-> object_name]
    /\ UNCHANGED <<collection, clock, last_text, current_input_text,
                   debounce_task, cancelled_tasks>>

RetryObject == \E object_name \in RetryNames : _retry_narrative_object(object_name)

\* _retry_narrative_object resumes: the call raised, returned None, or
\* returned a corrected object that replace_object puts in place; then the
\* `finally`.
CorrectionReturns ==
    \E k \in 1..Len(retry_tasks) :
       /\ retry_tasks' = RemoveAt(retry_tasks, k)
       /\ is_processing' = FALSE
       /\ \/ \E cause \in CollaboratorFailures \cup {"no correction"} :
               /\ last' = [op |-> "correction_failed", name |-> retry_tasks[k],
                           message |-> ErrorMessage(cause)]
               /\ UNCHANGED collection
          \/ \E item \in CorrectedItems :
               LET corrected_object ==
                       NarrativeObject(item.name, item.description,
                                       item.relationships, clock)
                   r == replace_object(collection, retry_tasks[k],
                                       corrected_object, clock)
               IN /\ collection' = r.objects
                  /\ last' = [op |-> "replace_object", old_name |-> retry_tasks[k],
                              new_object |-> corrected_object,
                              result |-> r.result]
       /\ UNCHANGED <<clock, last_text, current_input_text,
                      debounce_task, cancelled_tasks>>

Next ==
    \/ TextChanged
    \/ DeliverCancel
    \/ DebounceStart
    \/ DebounceTick
    \/ DebounceElapsed
    \/ LlmReturns
    \/ ThreadParse
    \/ ThreadMergeOne
    \/ ExtractionNotify
    \/ RetryObject
    \/ CorrectionReturns

Spec == Init /\ [][Next]_vars

\* The inputs of the event loop under fairness: the blank text and two real
\* texts, the retry of one object, one failure of the extraction call, and
\* every response of the collaborators.
FairInputs ==
    /\ last'.op = "text_changed" => last'.text \in {"", "a", "b"}
    /\ last'.op \in {"correction_started", "retry_refused"}
          => last'.name = "Alice"
    /\ last'.op = "llm_failed" => last'.message.cause = "timeout"

FairNext ==
    \/ TextChanged /\ FairInputs
    \/ DeliverCancel
    \/ DebounceStart
    \/ DebounceTick
    \/ DebounceElapsed
    \/ LlmReturns /\ FairInputs
    \/ ThreadParse
    \/ ThreadMergeOne
    \/ ExtractionNotify
    \/ RetryObject /\ FairInputs
    \/ CorrectionReturns

\* The event loop runs every task that is ready, and the calls of the
\* collaborators return or raise (requests are made with a timeout); the
\* user's events (text changes, retries) are under no obligation.
FairSpec ==
    /\ Init
    /\ [][FairNext]_vars
    /\ WF_vars(DeliverCancel)
    /\ WF_vars(DebounceStart)
    /\ WF_vars(DebounceTick)
    /\ WF_vars(DebounceElapsed)
    /\ WF_vars(LlmReturns /\ FairInputs)
    /\ WF_vars(ThreadParse)
    /\ WF_vars(ThreadMergeOne)
    /\ WF_vars(ExtractionNotify)
    /\ WF_vars(CorrectionReturns)

----------------------------------------------------------------------------
(* Properties of the orchestrator (Spec) *)

\* C2: at most one debounce-triggered extraction (collaborator call, parse
\* and merge) is in flight in every reachable state.
C2_SingleExtraction == ExtractionsInFlight <= 1

\* C2 witness: the extraction of a cancelled task is still in flight while
\* the task of the next text change exists.
C2_Witness ==
    /\ cancelled_tasks # <<>>
    /\ Head(cancelled_tasks).pc \in {"llm", "update"}
    /\ debounce_task.pc = "new"
    /\ ExtractionsInFlight = 1

\* C3 (as claimed): a correction starts its collaborator call only when no
\* debounce-triggered extraction is in flight.
C3_CorrectionOnlyWhenIdle ==
    [][last'.op = "correction_started" => ExtractionsInFlight = 0]_vars

\* C4 (as claimed): at most one collaborator call, extraction or
\* correction, is in flight at any time.
C4_AllSingleFlight == ExtractionsInFlight + CorrectionsInFlight <= 1

TaskSet(current, queue) == {current} \cup ToSet(queue)

WaitPending(task) == task.pc \in {"new", "wait"} /\ ~task.cancel

\* The wait of `old` is abandoned by the step: the task never runs, or has
\* CancelledError pending.
Abandoned(old) ==
    LET after == TaskSet(debounce_task', cancelled_tasks')
    IN /\ old \notin after
       /\ old.pc = "wait" => [old EXCEPT !.cancel = TRUE] \in after

\* Extractions start only in the task of the last observed text, and no
\* cancelled task enters its extraction.
OnlyLastTextExtracted ==
    /\ last'.op = "extraction_started"
          => /\ ~debounce_task.cancel
             /\ last'.text = last_text'
             /\ debounce_task'.text = last_text'
    /\ \A t \in TaskSet(debounce_task', cancelled_tasks') :
          (t.pc \in {"llm", "update"} /\ (t.cancel \/ t # debounce_task'))
             => \E u \in TaskSet(debounce_task, cancelled_tasks) :
                    u.pc \in {"llm", "update"} /\ u.text = t.text

\* C5 (as claimed): a text change with a different text during a pending
\* wait cancels that wait, whose extraction never runs, and starts a new
\* wait from zero; only the last text reaches the collaborator.
C5_LastWriteWins ==
    [][/\ (last'.op = "text_changed" /\ last'.changed /\ WaitPending(debounce_task))
          => /\ Abandoned(debounce_task)
             /\ debounce_task' = Task("new", last'.text)
       /\ OnlyLastTextExtracted]_vars

\* C5 (amended): as above, but a new wait starts only if the new text is
\* not empty or whitespace-only; for such a text no wait is pending after
\* the change.
C5_LastWriteWinsAmended ==
    [][/\ (last'.op = "text_changed" /\ last'.changed /\ WaitPending(debounce_task))
          => /\ Abandoned(debounce_task)
             /\ IF strip(last'.text) = ""
                THEN ~WaitPending(debounce_task')
                ELSE debounce_task' = Task("new", last'.text)
       /\ OnlyLastTextExtracted]_vars

\* C5 witness: a wait was cancelled in its countdown by a different text,
\* whose own wait is about to start.
C5_Witness ==
    /\ last.op = "text_changed" /\ last.changed
    /\ debounce_task = Task("new", last.text)
    /\ cancelled_tasks # <<>>
    /\ Head(cancelled_tasks).pc = "wait"
    /\ Head(cancelled_tasks).cancel
    /\ Head(cancelled_tasks).text # last.text

\* C6: a debounce wait cancelled before its interval elapsed mutates
\* nothing and notifies nobody: neither the cancelling text change nor the
\* delivery of the cancellation changes the Collection, and the Collection
\* changes only in steps of a task that got past its wait, or of a replace.
C6_CancelledWaitNoEffect ==
    [][/\ last'.op = "text_changed" => collection' = collection
       /\ (last'.op = "cancelled" /\ last'.pc = "wait")
             => (collection' = collection /\ ~last'.notified)
       /\ collection' # collection
             => \/ last'.op \in {"merged_one", "replace_object"}
                \/ last'.op = "cancelled" /\ last'.pc = "update"]_vars

\* C6 witness: the cancellation of a wait has been delivered while entities
\* are stored and the wait of the newer text is pending.
C6_Witness ==
    /\ last.op = "cancelled" /\ last.pc = "wait"
    /\ collection # <<>>
    /\ debounce_task.pc = "new"
    /\ debounce_task.text # last.text

C19_ElapsedWaitExtractsOnce ==
    [][/\ (/\ debounce_task.pc = "wait" /\ debounce_task.i = 1
           /\ ~debounce_task.cancel
           /\ last'.op \in {"extraction_started", "refused"})
          => /\ last'.op = "extraction_started"
             /\ debounce_task' = [debounce_task EXCEPT !.pc = "llm", !.i = 0]
       /\ last'.op = "llm_returned" => debounce_task.pc = "llm"
       /\ last'.op = "parsed"
             => debounce_task.pc = "update" /\ debounce_task.thread.phase = "parse"
       /\ last'.op = "merged_one" => debounce_task.thread.phase = "merge"
       /\ last'.op = "notified"
             => /\ debounce_task.thread.phase = "done"
                /\ last'.result = debounce_task.thread.result
       /\ ExtractionsInFlight' < ExtractionsInFlight
             => last'.op \in {"notified", "llm_failed"}]_vars

\* C20 (as claimed): a text change cancels only a wait that has not started
\* its extraction; an extraction in flight when the text changes is not
\* cancelled, and no extraction ends by cancellation.
C20_InFlightNotCancelled ==
    [][/\ (last'.op = "text_changed" /\ debounce_task.pc \in {"llm", "update"})
          => \A t \in TaskSet(debounce_task', cancelled_tasks') :
                t.pc \in {"llm", "update"} => ~t.cancel
       /\ last'.op = "cancelled" => last'.pc = "wait"]_vars

\* C26: a text-change event whose text is the last observed text is
\* ignored: the pending wait is neither cancelled nor started again, and
\* last_text, is_processing and the collection stay as they are.
C26_SameTextIgnored ==
    [][last'.op = "text_changed"
         => /\ last'.changed <=> last'.text # last_text
            /\ ~last'.changed
                  => UNCHANGED <<debounce_task, cancelled_tasks, last_text,
                                 is_processing, collection>>]_vars

\* The text of a pending wait was entered again, the wait goes on.
C26_Witness ==
    /\ last.op = "text_changed" /\ ~last.changed
    /\ strip(last.text) # ""
    /\ debounce_task.pc = "wait" /\ ~debounce_task.cancel
    /\ debounce_task.i < DEBOUNCE_SECONDS

\* C27: a change to an empty or whitespace-only text cancels the pending
\* wait, creates no task, and leaves the collection as it is; no
\* extraction starts while the last observed text is blank.
C27_BlankTextCancelsOnly ==
    [][/\ (/\ last'.op = "text_changed" /\ last'.changed
           /\ strip(last'.text) = "")
          => /\ collection' = collection
             /\ cancelled_tasks' = cancelled_tasks
             /\ debounce_task'.text = debounce_task.text
             /\ debounce_task'.pc # "new"
             /\ ~WaitPending(debounce_task')
       /\ last'.op = "extraction_started" => strip(last_text) # ""]_vars

\* A blank text arrived during a countdown; the wait is cancelled.
C27_Witness ==
    /\ last.op = "text_changed" /\ last.changed
    /\ last.text = " "
    /\ debounce_task.pc = "wait" /\ debounce_task.cancel
    /\ debounce_task.text \in {"a", "b"}

\* C28 (as claimed): is_processing is true in every state in which an
\* extraction or a correction is in flight; a debounce task that is
\* cancelled in its countdown, or refused, does not clear the flag.
C28_GuardAccurate ==
    /\ ExtractionsInFlight + CorrectionsInFlight > 0 => is_processing
    /\ (/\ last.op \in {"cancelled", "refused"}
        /\ last.op = "cancelled" => last.pc = "wait"
        /\ CorrectionsInFlight > 0)
          => is_processing

\* C29 (as claimed): the latest non-empty text is eventually passed to the
\* extraction collaborator, also when its interval elapses while another
\* call is in flight.  An extraction starts only from the pending wait of
\* its text, so the claim needs that the wait of the latest text ends in
\* no other way than by the start of its extraction or by a new text
\* change.
C29_LatestTextNotDropped ==
    [][(WaitPending(debounce_task) /\ ~WaitPending(debounce_task'))
         => last'.op \in {"extraction_started", "text_changed"}]_vars

\* C30: whenever is_processing is set (an extraction or a correction was
\* started), it eventually becomes false again, whatever the outcome:
\* success, failure of the collaborator, failure of the parse, or
\* cancellation.
C30_EventuallyIdle == is_processing ~> ~is_processing

\* An extraction ran to its notification and left the orchestrator idle.
C30_Witness ==
    /\ last.op = "notified"
    /\ ~is_processing
    /\ ExtractionsInFlight + CorrectionsInFlight = 0

\* The task that the next delivery of a CancelledError ends.
CancelledTask ==
    IF cancelled_tasks # <<>> /\ Head(cancelled_tasks).cancel
    THEN Head(cancelled_tasks) ELSE debounce_task

\* The worker thread of a pass has added or updated an entity so far.
PassMutated(thread) ==
    \/ thread.stats.added + thread.stats.updated > 0
    \/ /\ thread.phase = "done"
       /\ thread.result.stats.added + thread.result.stats.updated > 0

\* C35 (as claimed): no extraction pass mutates the Collection and then
\* ends without its result notification: a debounce task that ends by a
\* cancellation has added or updated nothing, neither in the steps of its
\* worker thread before the cancellation nor while the cancellation is
\* delivered.
C35_NoSilentMutation ==
    [][last'.op = "cancelled"
         => /\ collection' = collection
            /\ ~PassMutated(CancelledTask.thread)]_vars

\* C36: an extraction call starts only for the most recently observed
\* text: at the step that submits a text to the collaborator, that text is
\* last_text, so no text superseded by a later text change is submitted.
C36_ExtractsLatestText ==
    [][last'.op = "extraction_started" => last'.text = last_text']_vars

\* C36 witness: an extraction has started for the latest text "b" after
\* an earlier pass had stored entities.
C36_Witness ==
    /\ last.op = "extraction_started"
    /\ last.text = "b"
    /\ last_text = "b"
    /\ debounce_task.pc = "llm"
    /\ collection # <<>>

\* C37: a debounce expiry refused because a call is in flight is reported
\* when it is refused: the step that refuses it shows a warning, and it
\* leaves the Collection as it was.
C37_RefusalReported ==
    [][last'.op = "refused"
         => /\ is_processing
            /\ last'.message.severity = "warning"
            /\ collection' = collection]_vars

\* C37 witness: the wait for "b" has been refused with a warning while a
\* correction call is in flight and entities are stored.
C37_Witness ==
    /\ last.op = "refused"
    /\ last.text = "b"
    /\ last.message.severity = "warning"
    /\ CorrectionsInFlight > 0
    /\ collection # <<>>

----------------------------------------------------------------------------
(* Properties of the merge and the replace (ModelSpec) *)

PayloadNames(payload) == {payload[i].name : i \in 1..Len(payload)}

C7_ReplaceLeavesOthers ==
    [][(last'.op = "replace_object" /\ last'.result.success)
       => /\ last'.new_object.name \in DOMAIN collection'
          /\ (last'.old_name \notin DOMAIN collection'
              \/ last'.old_name = last'.new_object.name)
          /\ \A n \in DOMAIN collection \ {last'.old_name} :
                /\ n \in DOMAIN collection'
                /\ collection'[n] = collection[n]]_vars

\* C8: replace_object for a name that is not in the Collection fails with
\* "not found", inserts nothing and leaves the Collection as it was.
C8_ReplaceMissingFails ==
    [][(last'.op = "replace_object" /\ last'.old_name \notin DOMAIN collection)
       => /\ ~last'.result.success
          /\ last'.result.error = "not found"
          /\ last'.result.stats = NoStats
          /\ collection' = collection]_vars

\* C8 witness: a replace of an absent name by an object whose name is absent
\* too has been refused.
C8_Witness ==
    /\ last.op = "replace_object"
    /\ ~last.result.success
    /\ last.old_name \notin DOMAIN collection
    /\ last.new_object.name \notin DOMAIN collection
    /\ collection # <<>>

SecondPassStats(n) ==
    [added |-> 0, updated |-> 0, unchanged |-> n, removed |-> 0]

\* C9 (as claimed): merging a list a second time reports added = 0,
\* updated = 0, unchanged = N, removed = 0 and changes nothing, for every list.
C9_SecondMergeUnchanged ==
    [][(last'.op = "merge_from_list" /\ last'.repeat /\ ~last'.remove_missing)
       => /\ last'.stats = SecondPassStats(Len(last'.payload))
          /\ collection' = collection]_vars

\* Entries of the list that carry the same name carry the same description
\* and the same set of relationships.
SameNameSameContent(payload) ==
    \A i, j \in 1..Len(payload) :
        payload[i].name = payload[j].name
        => /\ payload[i].description = payload[j].description
           /\ ToSet(payload[i].relationships) = ToSet(payload[j].relationships)

\* C9 (amended): the second pass is all-unchanged for every list whose
\* same-named entries agree on description and relationship set.
C9_SecondMergeUnchangedAmended ==
    [][(/\ last'.op = "merge_from_list" /\ last'.repeat
        /\ ~last'.remove_missing
        /\ SameNameSameContent(last'.payload))
       => /\ last'.stats = SecondPassStats(Len(last'.payload))
          /\ collection' = collection]_vars

\* C9 witness: a second pass over a two-entry list, one entry of which has
\* a relationship list, has been made and counted both entries unchanged.
C9_Witness ==
    /\ last.op = "merge_from_list"
    /\ last.repeat /\ ~last.remove_missing
    /\ Len(last.payload) = 2
    /\ \E i \in 1..2 : Len(last.payload[i].relationships) = 2
    /\ last.stats.unchanged = 2

\* C10: a merge with remove_missing = true deletes exactly the stored names
\* that do not occur in the list, keeps every other entity, and reports
\* removed = the number of entities deleted.
C10_RemoveMissingExact ==
    [][(last'.op = "merge_from_list" /\ last'.remove_missing)
       => LET names == PayloadNames(last'.payload)
              deleted == DOMAIN collection \ DOMAIN collection'
          IN /\ deleted = DOMAIN collection \ names
             /\ DOMAIN collection' = (DOMAIN collection \cap names) \cup names
             /\ last'.stats.removed = Cardinality(deleted)]_vars

\* C10 witness: a remove_missing merge has deleted one entity and kept
\* another that the list mentions.
C10_Witness ==
    /\ last.op = "merge_from_list"
    /\ last.remove_missing
    /\ ~last.repeat
    /\ last.stats.removed = 1
    /\ last.stats.added = 0
    /\ last.stats.updated + last.stats.unchanged = 1

\* C11 (as the tests assert): a default merge_from_list call, and a
\* successful process_text_update pass, removes every stored entity that the
\* new list omits and counts the removed entities in stats.removed.
C11_DefaultMergeRemoves ==
    [][(\/ last'.op = "merge_from_list" /\ ~last'.remove_missing
        \/ last'.op = "process_text_update" /\ last'.result.success)
       => LET payload == IF last'.op = "merge_from_list"
                         THEN last'.payload ELSE last'.response.payload
              stats == IF last'.op = "merge_from_list"
                       THEN last'.stats ELSE last'.result.stats
              omitted == DOMAIN collection \ PayloadNames(payload)
          IN /\ DOMAIN collection' \cap omitted = {}
             /\ stats.removed = Cardinality(omitted)]_vars

\* C31 (as claimed): after every merge_from_list the number of entities is
\* the number before the call plus stats.added minus stats.removed.
C31_StatsAccountForSize ==
    [][last'.op = "merge_from_list"
         => Cardinality(DOMAIN collection')
              = Cardinality(DOMAIN collection)
                  + last'.stats.added - last'.stats.removed]_vars

\* Every stored relationship has the name of a stored entity as its target.
TargetsStored(objs) ==
    \A n \in DOMAIN objs :
       \A k \in 1..Len(objs[n].relationships) :
          objs[n].relationships[k].target \in DOMAIN objs

\* C32 (as claimed): an extraction pass or a correction made on a
\* collection whose relationships all have stored targets leaves a
\* collection whose relationships all have stored targets.
C32_ReferentialIntegrity ==
    [][(TargetsStored(collection)
          /\ last'.op \in {"process_text_update", "replace_object"})
         => TargetsStored(collection')]_vars

----------------------------------------------------------------------------
(* Properties of the validator and the parser (ParserSpec) *)

\* The number of items of the "objects" array of a response, 0 if there is
\* no such array.
ObjectCount(response_data) ==
    IF is_dict(response_data) /\ has(response_data, "objects")
       /\ is_list(response_data.v["objects"])
    THEN Len(response_data.v["objects"].v)
    ELSE 0

\* C17 (as claimed): for every parsed input value sanitize_response returns
\* without raising, its result is accepted by validate_response (is_valid,
\* no errors), and it has at most as many objects as the input.
C17_SanitizeTotalAndValid ==
    [][last'.op = "sanitize_response"
       => /\ last'.out.kind = "value"
          /\ validate_response(last'.out.value)
                = [is_valid |-> TRUE, errors |-> <<>>]
          /\ ObjectCount(last'.out.value) <= ObjectCount(last'.response_data)]_vars

\* C12 (as claimed): for every response, malformed in whatever way,
\* process_text_update returns success = true, with no more entities than
\* the response has objects; no response gives a failure result.
C12_MalformedRecovered ==
    [][(last'.op = "process_text_update")
       => /\ last'.result.success
          /\ last'.result.error = "none"
          /\ last'.llm_response.decoded.kind = "value"
                => Len(last'.response.payload)
                      <= ObjectCount(last'.llm_response.decoded.value)]_vars

DistinctNames(payload) ==
    \A i, j \in 1..Len(payload) : payload[i].name = payload[j].name => i = j

\* The entry of the list has the description of the stored entity of its
\* name and the same set of relationships.
SameAsStored(item, objs) ==
    /\ item.name \in DOMAIN objs
    /\ item.description = objs[item.name].description
    /\ ToSet(item.relationships) = ToSet(objs[item.name].relationships)

\* C15: in a merge of a list (of distinct names), an entry with the stored
\* description and the stored set of relationships, in any order, is
\* counted as unchanged and leaves the stored entity, its relationship list
\* and last_updated included, as it was; last_updated changes only for an
\* entity whose description or relationship set changes.
C15_UnchangedMergeKeepsEntity ==
    [][(last'.op = "merge_from_list" /\ DistinctNames(last'.payload))
       => LET payload == last'.payload
              same == {i \in 1..Len(payload) : SameAsStored(payload[i], collection)}
          IN /\ \A i \in same :
                   /\ payload[i].name \in DOMAIN collection'
                   /\ collection'[payload[i].name] = collection[payload[i].name]
             /\ last'.stats.unchanged = Cardinality(same)
             /\ \A n \in DOMAIN collection \cap DOMAIN collection' :
                   collection'[n].last_updated # collection[n].last_updated
                   => \/ collection'[n].description # collection[n].description
                      \/ ToSet(collection'[n].relationships)
                            # ToSet(collection[n].relationships)]_vars

\* C15 witness: a merge at a later time of an entry with the stored
\* description and the stored relationships in another order was counted
\* as unchanged.
C15_Witness ==
    /\ last.op = "merge_from_list"
    /\ ~last.repeat
    /\ DistinctNames(last.payload)
    /\ last.stats.unchanged = 1
    /\ \E i \in 1..Len(last.payload) :
          /\ SameAsStored(last.payload[i], collection)
          /\ last.payload[i].relationships
                # collection[last.payload[i].name].relationships
          /\ collection[last.payload[i].name].last_updated < clock

\* C16: validate_relationships keeps, in each object of the list, exactly
\* the relationships whose target is the name of an object of the list
\* (the object itself included) and drops the others; the objects, their
\* names and their descriptions are as they were.
C16_ValidateRelationshipsExact ==
    [][last'.op = "validate_relationships"
       => LET objects == last'.objects
              out == last'.out
              names == {objects[i].name : i \in 1..Len(objects)}
          IN /\ Len(out) = Len(objects)
             /\ \A i \in 1..Len(objects) :
                   /\ out[i].name = objects[i].name
                   /\ out[i].description = objects[i].description
                   /\ ToSet(out[i].relationships)
                         = {r \in ToSet(objects[i].relationships) :
                               r.target \in names}
                   /\ Len(out[i].relationships)
                         = Cardinality({k \in 1..Len(objects[i].relationships) :
                               objects[i].relationships[k].target \in names})]_vars

\* C16 witness: of the two relationships of an object, the one to itself
\* was kept and the one to a name that is not in the list was dropped.
C16_Witness ==
    /\ last.op = "validate_relationships"
    /\ \E i \in 1..Len(last.objects) :
          /\ Len(last.objects[i].relationships) = 2
          /\ Len(last.out[i].relationships) = 1
          /\ last.out[i].relationships[1].target = last.out[i].name

\* The words the quality filter takes for an echo of the format, for a name
\* and for a description.
GenericNames == {T_string, T_name, T_object}
GenericDescriptions == {T_string, T_description}

\* C21 (as claimed): every entity that parse_llm_response returns, on the
\* path of valid JSON, of sanitized JSON and of salvage parsing alike, has
\* a name of at least 2 characters, a description of at least 5, and
\* neither is a generic placeholder word.
C21_ParsedEntitiesHaveQuality ==
    [][last'.op = "process_text_update"
         => \A i \in 1..Len(last'.response.payload) :
               LET obj == last'.response.payload[i]
               IN /\ Len(obj.name) >= 2
                  /\ Len(obj.description) >= 5
                  /\ lower(obj.name) \notin GenericNames
                  /\ lower(obj.description) \notin GenericDescriptions]_vars

\* C22 (as claimed): names are compared exactly, case included: a pass on
\* a response holding an object named "alice" and one named "Alice" leaves
\* both in the collection, and total_count counts both.
C22_CaseVariantsBothStored ==
    [][(/\ last'.op = "process_text_update"
        /\ last'.llm_response.decoded = Returns(CaseVariants))
         => /\ last'.result.success
            /\ {lower(T_Alice), T_Alice} \subseteq DOMAIN collection'
            /\ last'.result.total_count = Cardinality(DOMAIN collection')
            /\ last'.result.total_count >= 2]_vars

\* C23: a response whose text holds one of the placeholder markers is an
\* extraction of nothing: the parser returns the empty list and raises
\* nothing, the pass succeeds with added, updated and removed all 0, and
\* the collection is unchanged.
C23_PlaceholderExtractsNothing ==
    [][(/\ last'.op = "process_text_update"
        /\ \E marker \in PlaceholderIndicators :
              contains(last'.llm_response.text, marker))
         => /\ last'.response = Response(FALSE, <<>>)
            /\ last'.result.success
            /\ last'.result.stats.added = 0
            /\ last'.result.stats.updated = 0
            /\ last'.result.stats.removed = 0
            /\ collection' = collection]_vars

\* A response that names ExactNameFromText with a real description was
\* given to a manager that holds an entity.
C23_Witness ==
    /\ last.op = "process_text_update"
    /\ contains(last.llm_response.text, T_ExactNameFromText)
    /\ last.llm_response.decoded.kind = "value"
    /\ collection # <<>>
    /\ last.result.total_count = 1

\* The value of a field line: what follows the first colon, stripped.
FieldValue(line) == str_strip(after_colon(str_strip(line)))

\* The line is a name field whose quoted value is name.
NameFieldLine(line, name) ==
    /\ contains(line, Quoted(T_name)) /\ contains(line, <<":">>)
    /\ FieldValue(line) \in {Quoted(name), Quoted(name) \o <<",">>}

\* The line is a description field whose value opens with a quote, holds
\* description, and is closed by a quote (a comma may follow).
CompleteDescriptionLine(line, description) ==
    /\ contains(line, Quoted(T_description)) /\ contains(line, <<":">>)
    /\ \E closing \in {<<Quote>>, <<Quote, ",">>} :
          FieldValue(line) = <<Quote>> \o description \o closing

\* C24: salvage parsing raises nothing, and each entity it emits comes from
\* a name field line followed by a description field line whose value is
\* closed by a quote; a pair whose description is cut off gives no entity,
\* and the one-line text cut inside its description gives none at all.
C24_SalvageOnlyCompletePairs ==
    [][(/\ last'.op = "process_text_update"
        /\ last'.llm_response.decoded.kind = "raise")
         => LET lines == split_lines(last'.llm_response.text)
                out == last'.response.payload
            IN /\ ~last'.response.raises
               /\ last'.result.success
               /\ \A k \in 1..Len(out) :
                     \E i, j \in 1..Len(lines) :
                        /\ i < j
                        /\ NameFieldLine(lines[i], out[k].name)
                        /\ CompleteDescriptionLine(lines[j], out[k].description)
               /\ last'.llm_response.text = T_CutOnOneLine => out = <<>>]_vars

\* The text cut inside its second object was salvaged: the first pair gave
\* an entity, the cut one gave none.
C24_Witness ==
    /\ last.op = "process_text_update"
    /\ last.llm_response.text = T_CutInSecondObject
    /\ Len(last.response.payload) = 1
    /\ last.response.payload[1].name = T_Alice

\* The name, the description and the relationships (target and description
\* of each, in order) that the items of a payload's "objects" array hold.
PayloadFields(response_data) ==
    LET objects == response_data.v["objects"].v
    IN [i \in 1..Len(objects) |->
          LET rels == IF has(objects[i], "relationships")
                      THEN objects[i].v["relationships"].v ELSE <<>>
          IN [name |-> objects[i].v["name"].v,
              description |-> objects[i].v["description"].v,
              relationships |->
                 [j \in 1..Len(rels) |->
                    [target |-> rels[j].v["target"].v,
                     description |-> rels[j].v["description"].v]]]]

\* a is b with some of its items left out, the others in b's order.
IsSubsequence(a, b) ==
    \E f \in [1..Len(a) -> 1..Len(b)] :
       /\ \A i, j \in 1..Len(a) : i < j => f[i] < f[j]
       /\ \A i \in 1..Len(a) : a[i] = b[f[i]]

\* C25: for a payload that conforms to the schema, every entity that parse
\* then convert produce is an item of the payload with its name, its
\* description and each relationship's target and description verbatim,
\* and the entities come in the payload's order.
C25_ConvertVerbatim ==
    [][(/\ last'.op = "process_text_update"
        /\ last'.llm_response.decoded.kind = "value"
        /\ validate_response(last'.llm_response.decoded.value).is_valid)
         => /\ ~last'.response.raises
            /\ IsSubsequence(last'.response.payload,
                              PayloadFields(last'.llm_response.decoded.value))]_vars

\* A conforming payload of two objects, the first with a relationship, was
\* parsed and both entities were produced.
C25_Witness ==
    /\ last.op = "process_text_update"
    /\ last.llm_response.decoded = Returns(WellFormed)
    /\ Len(last.response.payload) = 2
    /\ last.response.payload[1].relationships
          = <<[target |-> T_Bob, description |-> T_Knows]>>

\* The field constraints of the data model on one entity.
FieldConstraints(obj) ==
    /\ obj.name # <<>> /\ Len(obj.name) <= NameMaxLength
    /\ obj.description # <<>> /\ Len(obj.description) <= DescriptionMaxLength
    /\ \A k \in 1..Len(obj.relationships) :
          LET rel == obj.relationships[k]
          IN /\ rel.target # <<>> /\ Len(rel.target) <= NameMaxLength
             /\ rel.description # <<>>
             /\ Len(rel.description) <= RelDescriptionMaxLength

\* C33 (as claimed): after an extraction pass every entity of the
\* collection satisfies the field constraints of the data model, whatever
\* the path the parser took.
C33_StoredEntitiesWithinLimits ==
    [][last'.op = "process_text_update"
         => \A n \in DOMAIN collection' : FieldConstraints(collection'[n])]_vars

\* The text is at most MaxTextLength characters of the user's text, with
\* the truncation marker after them when the user's text was longer.
BoundedTextOf(embedded, text) ==
    \/ Len(text) <= MaxTextLength /\ embedded = text
    \/ Len(text) > MaxTextLength
         /\ embedded = SubSeq(text, 1, MaxTextLength) \o Ellipsis

\* C38 (as claimed): on every path that hands a prompt to the extraction
\* collaborator, the client's own and the one of the debounce task, the
\* text embedded in the prompt is at most MaxTextLength characters of the
\* user's text, plus the truncation marker.
C38_PromptTextBounded ==
    [][(last'.op \in {"extract_narrative_objects", "_get_llm_response"}
          /\ last'.out.called)
         => BoundedTextOf(last'.out.prompt.text, last'.text)]_vars

----------------------------------------------------------------------------
(* Properties of the timestamps and the snapshot (ModelSpec) *)

\* C14 (as claimed): in every reachable state every entity of the
\* Collection has first_seen <= last_updated, also after a load from a
\* snapshot whose entries lack one or both timestamps.
C14_FirstSeenBeforeLastUpdated ==
    \A n \in DOMAIN collection :
        collection[n].first_seen <= collection[n].last_updated

\* C18: from_dict(to_dict()) gives a Collection with the same names and, for
\* each name, the same description, relationships, first_seen and
\* last_updated; the snapshot's count is the number of entities.
C18_SnapshotRoundTrip ==
    [][last'.op = "round_trip"
       => /\ DOMAIN collection' = DOMAIN collection
          /\ \A n \in DOMAIN collection :
                /\ collection'[n].name = collection[n].name
                /\ collection'[n].description = collection[n].description
                /\ collection'[n].relationships = collection[n].relationships
                /\ collection'[n].first_seen = collection[n].first_seen
                /\ collection'[n].last_updated = collection[n].last_updated
          /\ last'.data.count = Cardinality(DOMAIN collection)]_vars

\* C18 witness: a Collection of two entities, one with two relationships
\* and one updated after it was first seen, has been written and read back
\* at a later time.
C18_Witness ==
    /\ last.op = "round_trip"
    /\ Cardinality(DOMAIN collection) = 2
    /\ \E n \in DOMAIN collection : Len(collection[n].relationships) = 2
    /\ \E n \in DOMAIN collection :
          /\ collection[n].first_seen < collection[n].last_updated
          /\ collection[n].last_updated < clock

\* C34 (as claimed): first_seen is set once, when a name enters the
\* Collection: a merge, a processed response or a replace that keeps a name
\* present leaves the first_seen stored under that name as it was, also
\* when the corrected entity of a replace carries the name it replaces.
C34_FirstSeenSetOnce ==
    [][last'.op \in {"merge_from_list", "process_text_update", "replace_object"}
         => \A n \in DOMAIN collection \cap DOMAIN collection' :
               collection'[n].first_seen = collection[n].first_seen]_vars

====
